---- MODULE Spec2Model ----
(***************************************************************************)
(* Model of renderdoc/driver/gl/gl_shader_refl.cpp:                        *)
(*   - ReconstructVarTree and sort, driven by the two loops of             *)
(*     MakeShaderReflection that call them (flat records -> nested tree);  *)
(*   - DisassembleSPIRV (two passes over a tagged word stream);            *)
(*   - the resource list, the constant blocks and the signature lists of   *)
(*     MakeShaderReflection;                                               *)
(*   - CheckVertexOutputUses and the source patching of                    *)
(*     MakeSeparableShaderProgram (scans over source text).                *)
(* Strings are sequences of one-character strings; a C string is such a    *)
(* sequence read up to its first NUL.  The 32-bit unsigned registers are   *)
(* scaled to UIntBits bits, because the checker's integers are 32-bit      *)
(* signed: ~0U is 2^UIntBits - 1 and every GLint of the inputs is below it.*)
(***************************************************************************)
EXTENDS Integers, Sequences, FiniteSets, TLC

VARIABLES
    query,          \* which loop of MakeShaderReflection runs: the GLenum passed as query
    parentBlocks,   \* the array of numParentBlocks sibling lists (members / ubos)
    globalUniforms, \* the list behind the globalUniforms argument of the uniform loop
    hist,           \* the resources of the program as the driver reported them, in order
    tpc,            \* position of the calling loop: "build", "done"
    sortTies,       \* how this build's std::sort leaves elements that compare equal
    varIdx,         \* the caller's loop counter: resources visited in this pass
    run,            \* number of the reflection pass over the same program (1 or 2)
    prev,           \* the sorted lists the first pass produced
    spirv,          \* the word stream handed to DisassembleSPIRV
    dpc,            \* position in DisassembleSPIRV: "entry", "pass1", "pass2", "done", "fault", "off"
    it,             \* the scan cursor
    opidx,          \* the running number printed inside functions
    infunc,         \* inside a function body
    resultnames,    \* the name table, one string per id
    disasm,         \* the text produced so far, line by line
    stray,          \* whether a read or write outside the stream or the table has happened
    beat,           \* parity of the loop iterations the call has executed
    other,          \* a second invocation, suspended: its arguments, locals and output
    uniforms,       \* the uniforms of the program as the driver lists them (type, name, array size)
    numSSBOs,       \* the number of shader storage blocks the driver reports
    rpc,            \* position in the resource loops: "uniforms", "ssbos", "done", "off"
    resU,           \* the loop counter u of the resource loops
    resources,      \* the vector<ShaderResource> built so far
    sigInputs,      \* the program inputs (or outputs) as the driver lists them
    sigs,           \* the vector<SigParameter> of the signature being built
    spc,            \* position in the signature loop: "collect", "sorted", "off"
    shadType,       \* the shader stage whose signature is built
    sigEnum,        \* eGL_PROGRAM_INPUT or eGL_PROGRAM_OUTPUT
    sources,        \* the source strings handed to CheckVertexOutputUses
    srcIdx,         \* its loop counter i
    offs,           \* its scan offset
    pointSizeUsed,  \* its first result flag
    clipDistanceUsed, \* its second result flag
    upc,            \* its position: "point", "pointscan", "clip", "clipscan", "done", "off"
    src,            \* the source string MakeSeparableShaderProgram patches
    block,          \* the gl_PerVertex block to insert
    insertAt,       \* the insertion offset the scan ended on (the local it)
    substituted,    \* the patched string
    ppc             \* position in the patch: "scan", "patched", "skipped", "off"

treeVars == <<query, parentBlocks, globalUniforms, hist, varIdx, tpc, sortTies, run, prev>>

disVars == <<spirv, dpc, it, opidx, infunc, resultnames, disasm, stray, beat>>

resVars == <<uniforms, numSSBOs, rpc, resU, resources>>

sigVars == <<sigInputs, sigs, spc, shadType, sigEnum>>

useVars == <<sources, srcIdx, offs, pointSizeUsed, clipDistanceUsed, upc>>

sepVars == <<src, block, insertAt, substituted, ppc>>

auxVars == <<resVars, sigVars, useVars, sepVars>>

vars == <<treeVars, disVars, other, auxVars>>

----------------------------------------------------------------------------
(* Bounds of the model *)

MaxRecs == 3        \* resources enumerated in one pass
NumBlocks == 2      \* numParentBlocks: ssbos.size() / numUBOs

(* Program constants *)

UIntBits == 16
UINT_MAX == 65535   \* ~0U at UIntBits bits

NUL == "NUL"        \* the character '\0'

Max(a, b) == IF a > b THEN a ELSE b
Min(a, b) == IF a < b THEN a ELSE b

----------------------------------------------------------------------------
(* C strings *)

\* *p for a pointer p (1-based) into the buffer of a std::string: the
\* character after the last one is the terminating NUL.
CharAt(buf, p) == IF p >= 1 /\ p <= Len(buf) THEN buf[p] ELSE NUL

\* position of the NUL that ends the C string starting at p
StrEnd(buf, p) == CHOOSE q \in p..(Len(buf) + 1) :
                     /\ CharAt(buf, q) = NUL
                     /\ \A k \in p..(q - 1) : CharAt(buf, k) # NUL

\* the C string starting at p, as a std::string
CStr(buf, p) == SubSeq(buf, p, StrEnd(buf, p) - 1)

\* strchr(p, c) != NULL
StrChr(buf, p, c) == \E q \in p..(StrEnd(buf, p) - 1) : buf[q] = c

Digits == <<"0", "1", "2", "3", "4", "5", "6", "7", "8", "9">>
IsDigit(c) == \E d \in 1..10 : Digits[d] = c
DigitVal(c) == (CHOOSE d \in 1..10 : Digits[d] = c) - 1

----------------------------------------------------------------------------
(* GL type enumerants -> descriptor fields (the four switches on values[0]) *)

NumericTypes == {"eGL_FLOAT", "eGL_FLOAT_VEC4", "eGL_FLOAT_MAT4x3",
                 "eGL_DOUBLE", "eGL_UNSIGNED_INT", "eGL_BOOL", "eGL_INT", "eGL_INT_VEC2"}

IsVariableType(t) == t \in NumericTypes

VarTypeOf(t) ==
    CASE t \in {"eGL_FLOAT", "eGL_FLOAT_VEC4", "eGL_FLOAT_MAT4x3"} -> "eVar_Float"
      [] t \in {"eGL_DOUBLE"} -> "eVar_Double"
      [] t \in {"eGL_UNSIGNED_INT", "eGL_BOOL"} -> "eVar_UInt"
      [] t \in {"eGL_INT", "eGL_INT_VEC2"} -> "eVar_Int"

RowsOf(t) == IF t = "eGL_FLOAT_MAT4x3" THEN 3 ELSE 1

ColsOf(t) ==
    CASE t \in {"eGL_FLOAT_VEC4", "eGL_FLOAT_MAT4x3"} -> 4
      [] t \in {"eGL_INT_VEC2"} -> 2
      [] OTHER -> 1

TypeNameOf(t) ==
    CASE t = "eGL_FLOAT" -> "float"
      [] t = "eGL_FLOAT_VEC4" -> "vec4"
      [] t = "eGL_FLOAT_MAT4x3" -> "mat4x3"
      [] t = "eGL_DOUBLE" -> "double"
      [] t = "eGL_UNSIGNED_INT" -> "uint"
      [] t = "eGL_BOOL" -> "bool"
      [] t = "eGL_INT" -> "int"
      [] t = "eGL_INT_VEC2" -> "ivec2"

----------------------------------------------------------------------------
(* glGetProgramResourceiv: the seven properties of one resource.  For      *)
(* buffer variables resProps[2] is eGL_OFFSET instead of eGL_LOCATION.     *)

Values(q, res) ==
    << res.type,
       Len(res.name) + 1,
       IF q = "eGL_BUFFER_VARIABLE" THEN res.offset ELSE res.location,
       res.blockIndex,
       res.arraySize,
       res.offset,
       res.isRowMajor >>

\* values[] is indexed from 0 in the source
Val(values, i) == values[i + 1]

\* faulty variant: a record with neither location nor offset is put at the
\* front, as register (0, 0)
RegOf_UnboundFirst(values) ==
    IF Val(values, 5) = -1 /\ Val(values, 2) >= 0
    THEN [vec |-> Val(values, 2) % (2 ^ UIntBits), comp |-> 0]
    ELSE IF Val(values, 5) >= 0
         THEN [vec |-> (Val(values, 5) \div 16) % (2 ^ UIntBits),
               comp |-> (Val(values, 5) \div 4) % 4]
         ELSE [vec |-> 0, comp |-> 0]

\* var.reg from location / offset
RegOf(values) ==
    IF Val(values, 5) = -1 /\ Val(values, 2) >= 0
    THEN [vec |-> Val(values, 2) % (2 ^ UIntBits), comp |-> 0]
    ELSE IF Val(values, 5) >= 0
         THEN [vec |-> (Val(values, 5) \div 16) % (2 ^ UIntBits),
               comp |-> (Val(values, 5) \div 4) % 4]
         ELSE [vec |-> UINT_MAX, comp |-> UINT_MAX]

\* the test for a trailing "[0]": reads name[c-3], name[c-2], name[c-1].
\* For c < 3 the first reads lie outside the string; what they return is
\* any character (before), and the in-range reads are the name's own.
TrailReads(name, c, before) ==
    [k \in 1..3 |-> IF c - 4 + k >= 0 THEN CharAt(name, c - 3 + k) ELSE before]

\* the positions of the name that line 630 reads, in the order of the
\* reads (0 is the first character); the first is read whatever the name
TrailIndices(c) == <<c - 3, c - 2, c - 1>>

HasTrailingZero(name, c, before) ==
    LET r == TrailReads(name, c, before)
    IN r[1] = "[" /\ r[2] = "0" /\ r[3] = "]"

\* the characters an out-of-range read can return
StrayChars == {"[", "0", "]", "?"}

\* faulty variant: elements is the array size as reported, trimmed or not
MakeVar_SizeKept(values, name, before) ==
    LET c == Val(values, 1) - 1
        t == Val(values, 0)
        trim == HasTrailingZero(name, c, before)
    IN [ name |-> IF trim THEN SubSeq(name, 1, c - 3) ELSE name,
         reg  |-> RegOf(values),
         type |-> [ descriptor |->
                      [ type |-> VarTypeOf(t),
                        rows |-> RowsOf(t),
                        cols |-> ColsOf(t),
                        elements |-> Val(values, 4),
                        rowMajorStorage |-> (Val(values, 6) > 0),
                        name |-> TypeNameOf(t) ],
                    members |-> <<>> ] ]

\* var as it stands at line 633: descriptor, reg, and the name with a
\* trailing [0] trimmed.
MakeVar(values, name, before) ==
    LET c == Val(values, 1) - 1
        t == Val(values, 0)
        trim == HasTrailingZero(name, c, before)
    IN [ name |-> IF trim THEN SubSeq(name, 1, c - 3) ELSE name,
         reg  |-> RegOf(values),
         type |-> [ descriptor |->
                      [ type |-> VarTypeOf(t),
                        rows |-> RowsOf(t),
                        cols |-> ColsOf(t),
                        elements |-> IF trim THEN Max(1, Val(values, 4)) ELSE 0,
                        rowMajorStorage |-> (Val(values, 6) > 0),
                        name |-> TypeNameOf(t) ],
                    members |-> <<>> ] ]

----------------------------------------------------------------------------
(* The walk over the dotted / indexed name (the while loop at 651-744 and  *)
(* the push of the leaf at 746-753), on one sibling list.                  *)

\* first position q >= p with a '.' or a '['
ScanBase(buf, p) == CHOOSE q \in p..Len(buf) :
                       /\ buf[q] \in {".", "["}
                       /\ \A k \in p..(q - 1) : buf[k] \notin {".", "["}

\* the decimal number starting at p: <<value, position after the digits>>
RECURSIVE ParseIdx(_, _, _)
ParseIdx(buf, p, acc) ==
    IF IsDigit(CharAt(buf, p))
    THEN ParseIdx(buf, p + 1, acc * 10 + DigitVal(CharAt(buf, p)))
    ELSE <<acc, p>>

\* index of the first element of a sibling list with this name, 0 if none
FindByName(members, base) ==
    IF \E i \in 1..Len(members) : members[i].name = base
    THEN CHOOSE i \in 1..Len(members) :
            /\ members[i].name = base
            /\ \A j \in 1..(i - 1) : members[j].name # base
    ELSE 0

\* faulty variant: the parent takes the whole register of the variable
ParentVar_CompKept(base, var, isarray, arrayIdx) ==
    [ name |-> base,
      reg  |-> var.reg,
      type |-> [ descriptor |->
                   [ type |-> var.type.descriptor.type,
                     rows |-> 0,
                     cols |-> 0,
                     elements |-> IF isarray THEN Max(1, (arrayIdx + 1) % (2 ^ UIntBits)) ELSE 0,
                     rowMajorStorage |-> FALSE,
                     name |-> "struct" ],
                 members |-> <<>> ] ]

\* the parent variable constructed at 697-706
ParentVar(base, var, isarray, arrayIdx) ==
    [ name |-> base,
      reg  |-> [vec |-> var.reg.vec, comp |-> 0],
      type |-> [ descriptor |->
                   [ type |-> var.type.descriptor.type,
                     rows |-> 0,
                     cols |-> 0,
                     elements |-> IF isarray THEN Max(1, (arrayIdx + 1) % (2 ^ UIntBits)) ELSE 0,
                     rowMajorStorage |-> FALSE,
                     name |-> "struct" ],
                 members |-> <<>> ] ]

\* faulty variant: the found parent takes the new element count instead of the maximum
MergeParent_Overwrite(found, parentVar) ==
    [found EXCEPT
        !.type.descriptor.elements = parentVar.type.descriptor.elements,
        !.reg.vec = Min(found.reg.vec, parentVar.reg.vec)]

\* faulty variant: the found parent also takes the type of the new record
MergeParent_TypeToo(found, parentVar) ==
    [found EXCEPT
        !.type.descriptor.elements =
            Max(found.type.descriptor.elements, parentVar.type.descriptor.elements),
        !.type.descriptor.type = parentVar.type.descriptor.type,
        !.reg.vec = Min(found.reg.vec, parentVar.reg.vec)]

\* faulty variant: a found parent is left as the first record made it
MergeParent_KeepFound(found, parentVar) == found

\* the update of a found parent at 718-720
MergeParent(found, parentVar) ==
    [found EXCEPT
        !.type.descriptor.elements =
            Max(found.type.descriptor.elements, parentVar.type.descriptor.elements),
        !.reg.vec = Min(found.reg.vec, parentVar.reg.vec)]

\* faulty variant: indices above 0 descend like index 0
StopsDescent_Never(arrayIdx) == FALSE

\* the test at 739: an index above 0 ends the walk
StopsDescent(arrayIdx) == arrayIdx > 0

\* the leaf pushed at 749-752
PushLeaf(members, var, n) == Append(members, [var EXCEPT !.name = n])

\* One sibling list after the walk that starts in it with nm at position p.
\* The source walks down with a pointer; here each level returns its list.
RECURSIVE Walk(_, _, _, _)
Walk(members, buf, p, var) ==
    IF ~(StrChr(buf, p, ".") \/ StrChr(buf, p, "["))
    THEN PushLeaf(members, var, CStr(buf, p))
    ELSE
      LET q == ScanBase(buf, p)
          isarray == (buf[q] = "[")
          buf1 == [buf EXCEPT ![q] = NUL]
          base == CStr(buf1, p)
          idx == IF isarray THEN ParseIdx(buf1, q + 1, 0) ELSE <<0, q + 1>>
          arrayIdx == idx[1]
          \* *nm = 0; nm++ on the ']'
          r == idx[2]
          buf2 == IF isarray /\ r <= Len(buf1) THEN [buf1 EXCEPT ![r] = NUL] ELSE buf1
          naked == isarray /\ CharAt(buf2, r + 1) # "."
          \* *nm = 0; nm++ on the '.' that follows the ']'
          buf3 == IF isarray /\ ~naked THEN [buf2 EXCEPT ![r + 1] = NUL] ELSE buf2
          nm == IF isarray THEN r + 2 ELSE q + 1
          parentVar == ParentVar(base, var, isarray, arrayIdx)
          i == FindByName(members, base)
          node == IF i = 0 THEN parentVar ELSE MergeParent(members[i], parentVar)
          below == IF StopsDescent(arrayIdx)
                   THEN node.type.members
                   ELSE Walk(node.type.members, buf3, nm, var)
          node1 == [node EXCEPT !.type.members = below]
      IN IF naked
         THEN members
         ELSE IF i = 0 THEN Append(members, node1)
                       ELSE [members EXCEPT ![i] = node1]

----------------------------------------------------------------------------
(* sort(vector<DynShaderConstant> &) *)

\* offset_sort: a before b
OffsetLess(a, b) ==
    IF a.reg.vec = b.reg.vec THEN a.reg.comp < b.reg.comp ELSE a.reg.vec < b.reg.vec

Reverse(s) == [i \in 1..Len(s) |-> s[Len(s) + 1 - i]]

\* x put behind every element that is not after it
InsertSorted(s, x) ==
    LET k == Cardinality({i \in 1..Len(s) : ~OffsetLess(x, s[i])})
    IN SubSeq(s, 1, k) \o <<x>> \o SubSeq(s, k + 1, Len(s))

RECURSIVE InsertionSort(_, _)
InsertionSort(done, rest) ==
    IF rest = <<>> THEN done
    ELSE InsertionSort(InsertSorted(done, Head(rest)), Tail(rest))

\* std::sort(vars.begin(), vars.end(), offset_sort()): ordered by the
\* comparison; the order of elements that compare equal is not specified by
\* the language and is fixed by the library of the build ("keep": as they
\* were, "swap": reversed).
StdSort(s, ties) ==
    IF ties = "keep" THEN InsertionSort(<<>>, s) ELSE InsertionSort(<<>>, Reverse(s))

\* faulty variant: the members of the sorted variables are left as they are
SortVars_TopOnly(vs, ties) == StdSort(vs, ties)

RECURSIVE SortVars(_, _)
SortVars(vs, ties) ==
    IF vs = <<>> THEN vs
    ELSE LET sorted == StdSort(vs, ties)
         IN [i \in 1..Len(sorted) |->
               [sorted[i] EXCEPT !.type.members = SortVars(@, ties)]]

----------------------------------------------------------------------------
(* ReconstructVarTree as a function of the caller's lists *)

\* faulty variant: a block index past the end is clamped to the last block
TargetOf_Clamped(values, numParentBlocks, hasDefault) ==
    IF Val(values, 3) # -1
    THEN <<"block", Min(Val(values, 3), numParentBlocks - 1)>>
    ELSE IF hasDefault THEN <<"default">> ELSE <<"none">>

\* the list the variable goes to (635-646): <<"block", i>>, <<"default">>
\* or <<"none">> when the caller passed no default block
TargetOf(values, numParentBlocks, hasDefault) ==
    IF Val(values, 3) # -1 /\ Val(values, 3) < numParentBlocks
    THEN <<"block", Val(values, 3)>>
    ELSE IF hasDefault THEN <<"default">> ELSE <<"none">>

\* faulty variant: the buffer-variable loop passes &globalUniforms too
HasDefaultBlock_Always(q) == TRUE

\* whether the defaultBlock argument is a list: the buffer-variable loop
\* passes NULL (1384), the uniform loop passes &globalUniforms (1423)
HasDefaultBlock(q) == q = "eGL_UNIFORM"

\* faulty variant: the default case of the type switch does not return, and
\* a sampler goes on through the function as if it were a float
Reconstruct_NoBail(q, blocks, dflt, res, before) ==
    LET r == IF IsVariableType(res.type) THEN res ELSE [res EXCEPT !.type = "eGL_FLOAT"]
        values == Values(q, r)
        var == MakeVar(values, r.name, before)
        target == TargetOf(values, Len(blocks), HasDefaultBlock(q))
    IN IF target[1] = "none" THEN [blocks |-> blocks, dflt |-> dflt]
       ELSE IF target[1] = "block"
            THEN [blocks |-> [blocks EXCEPT ![target[2] + 1] = Walk(@, var.name, 1, var)],
                  dflt |-> dflt]
            ELSE [blocks |-> blocks, dflt |-> Walk(dflt, var.name, 1, var)]

\* the caller's lists after one call: [blocks, dflt]
Reconstruct(q, blocks, dflt, res, before) ==
    LET values == Values(q, res)
        var == MakeVar(values, res.name, before)
        target == TargetOf(values, Len(blocks), HasDefaultBlock(q))
    IN IF ~IsVariableType(Val(values, 0)) THEN [blocks |-> blocks, dflt |-> dflt]
       ELSE IF target[1] = "none" THEN [blocks |-> blocks, dflt |-> dflt]
       ELSE IF target[1] = "block"
            THEN [blocks |-> [blocks EXCEPT ![target[2] + 1] = Walk(@, var.name, 1, var)],
                  dflt |-> dflt]
            ELSE [blocks |-> blocks, dflt |-> Walk(dflt, var.name, 1, var)]

----------------------------------------------------------------------------
(* The resources the driver can report *)

nX      == <<"x">>
nY      == <<"y">>
nXarr   == <<"x", "[", "0", "]">>
nFoo    == <<"f", "o", "o">>
nFoo0x  == <<"f", "o", "o", "[", "0", "]", ".", "x">>
nFoo2x  == <<"f", "o", "o", "[", "2", "]", ".", "x">>
nFoo1y  == <<"f", "o", "o", "[", "1", "]", ".", "y">>
nFoo0s1 == <<"f", "o", "o", "[", "0", "]", ".", "s", "[", "1", "]", ".", "m">>
nSm     == <<"s", ".", "m">>
nSm1    == <<"s", ".", "m", "[", "1", "]">>

Res(t, n, loc, blk, arr, off, rm) ==
    [type |-> t, name |-> n, location |-> loc, blockIndex |-> blk,
     arraySize |-> arr, offset |-> off, isRowMajor |-> rm]

\* a variable outside any block (bound by location, no offset)
Loose(t, n, loc) == Res(t, n, loc, -1, 1, -1, 0)
\* a variable reported with a block index and a byte offset
InBlock(t, n, blk, off) == Res(t, n, -1, blk, 1, off, 0)

LooseResources ==
    { Loose("eGL_FLOAT", nX, loc) : loc \in {1, 3} }
    \cup { Loose("eGL_FLOAT", nY, 1) }
    \cup { Res("eGL_FLOAT", nXarr, 2, -1, 4, -1, 0) }
    \cup { Loose("eGL_FLOAT", n, 2) : n \in {nFoo, nFoo0x, nFoo2x, nFoo1y, nSm, nSm1} }
    \cup { Loose("eGL_FLOAT", nFoo0s1, 1) }
    \cup { Loose("eGL_FLOAT", n, -1) : n \in {nY, nFoo1y} }

BlockResources ==
    { InBlock("eGL_FLOAT_VEC4", nX, blk, 32) : blk \in {-1, 0, 1, 5} }
    \cup { InBlock("eGL_INT", n, 0, 20) : n \in {nFoo0x, nFoo2x, nSm1} }
    \cup { InBlock("eGL_SAMPLER_2D", nY, 0, 0) }
    \cup { Res("eGL_FLOAT", nXarr, -1, 0, 0, 16, 0) }
    \cup { InBlock("eGL_FLOAT", nFoo1y, 0, 4) }

\* uniforms are bound by location or lie in a uniform block; buffer
\* variables always carry an offset
Pool(q) ==
    IF q = "eGL_UNIFORM"
    THEN LooseResources \cup {r \in BlockResources : r.name = nX /\ r.blockIndex >= 0}
         \cup { Res("eGL_SAMPLER_2D", nFoo2x, 0, 1, 4, -1, 0) }
    ELSE BlockResources

\* the inputs of the two-pass runs
SmallPool(q) ==
    IF q = "eGL_UNIFORM"
    THEN { Loose("eGL_FLOAT", nX, 1), Loose("eGL_FLOAT", nY, 1),
           Loose("eGL_FLOAT", nFoo0x, 2), Loose("eGL_FLOAT", nFoo2x, 2),
           Loose("eGL_FLOAT", nSm1, 2), InBlock("eGL_FLOAT_VEC4", nX, 0, 32) }
    ELSE { InBlock("eGL_FLOAT_VEC4", nX, blk, 32) : blk \in {0, 5} }
         \cup { InBlock("eGL_INT", n, 0, 20) : n \in {nFoo0x, nFoo2x} }

----------------------------------------------------------------------------
(* MakeShaderReflection: the loops that call ReconstructVarTree and sort *)

\* faulty variant: the lists outlive the call (a static array)
FreshBlocks_Kept(old) == IF old = <<>> THEN [i \in 1..NumBlocks |-> <<>>] ELSE old

\* the vectors the caller constructs before its loop: members (1380) for
\* buffer variables, ubos (1401) for uniforms; globalUniforms (1393) is
\* constructed empty
FreshBlocks(old) == [i \in 1..NumBlocks |-> <<>>]

InitTree ==
    /\ query \in {"eGL_UNIFORM", "eGL_BUFFER_VARIABLE"}
    /\ parentBlocks = FreshBlocks(<<>>)
    /\ globalUniforms = <<>>
    /\ hist = <<>>
    /\ varIdx = 0
    /\ tpc = "build"
    /\ sortTies = "unknown"
    /\ run = 1
    /\ prev = [blocks |-> <<>>, dflt |-> <<>>]

\* no stream is being disassembled
NoDisassembly ==
    /\ spirv = <<>>
    /\ dpc = "off"
    /\ it = 0
    /\ opidx = 0
    /\ infunc = FALSE
    /\ resultnames = <<>>
    /\ disasm = <<>>
    /\ stray = FALSE
    /\ beat = FALSE

\* no second invocation
Alone == [switches |-> 0]

\* no resource list is being built
NoResources ==
    /\ uniforms = <<>>
    /\ numSSBOs = 0
    /\ rpc = "off"
    /\ resU = 0
    /\ resources = <<>>

\* no signature is being built
NoSignature ==
    /\ sigInputs = <<>>
    /\ sigs = <<>>
    /\ spc = "off"
    /\ shadType = "eGL_VERTEX_SHADER"
    /\ sigEnum = "eGL_PROGRAM_INPUT"

\* no source is being scanned for uses of the vertex outputs
NoUses ==
    /\ sources = <<>>
    /\ srcIdx = 0
    /\ offs = 0
    /\ pointSizeUsed = FALSE
    /\ clipDistanceUsed = FALSE
    /\ upc = "off"

\* no source is being patched
NoPatch ==
    /\ src = <<>>
    /\ block = <<>>
    /\ insertAt = 0
    /\ substituted = <<>>
    /\ ppc = "off"

Init == InitTree /\ NoDisassembly /\ other = Alone
        /\ NoResources /\ NoSignature /\ NoUses /\ NoPatch

\* one iteration of the loop at 1382-1385 (buffer variables) or 1421-1424
\* (uniforms): the call for resource varIdx.  In the first pass the driver's
\* answer for the resource is drawn here; a second pass over the same
\* program gets the same answers.
ReconstructVarTree(res, before) ==
    /\ tpc = "build"
    /\ IF run = 1 THEN Len(hist) < MaxRecs /\ hist' = Append(hist, res)
                  ELSE varIdx < Len(hist) /\ res = hist[varIdx + 1] /\ hist' = hist
    /\ LET out == Reconstruct(query, parentBlocks, globalUniforms, res, before)
       IN /\ parentBlocks' = out.blocks
          /\ globalUniforms' = out.dflt
    /\ varIdx' = varIdx + 1
    /\ UNCHANGED <<query, tpc, sortTies, run, prev, disVars, other, auxVars>>

\* the loops at 1387-1391 / 1432-1457, once every resource has been
\* visited: every list is sorted.  The first sort shows how the library of
\* this build orders equal elements.
SortAll(ties) ==
    /\ tpc = "build"
    /\ varIdx = Len(hist)
    /\ sortTies \in {"unknown", ties}
    /\ sortTies' = ties
    /\ parentBlocks' = [i \in 1..Len(parentBlocks) |-> SortVars(parentBlocks[i], ties)]
    /\ globalUniforms' = SortVars(globalUniforms, ties)
    /\ tpc' = "done"
    /\ UNCHANGED <<query, hist, varIdx, run, prev, disVars, other, auxVars>>

\* MakeShaderReflection is called again for the same program
Restart ==
    /\ tpc = "done"
    /\ run = 1
    /\ prev' = [blocks |-> parentBlocks, dflt |-> globalUniforms]
    /\ parentBlocks' = FreshBlocks(parentBlocks)
    /\ globalUniforms' = <<>>
    /\ varIdx' = 0
    /\ run' = 2
    /\ tpc' = "build"
    /\ UNCHANGED <<query, hist, sortTies, disVars, other, auxVars>>

Stray(res) == IF Len(res.name) < 3 THEN StrayChars ELSE {"?"}

\* the driver's answers for the next resource
NextResource == \E res \in Pool(query) : \E before \in Stray(res) : ReconstructVarTree(res, before)
NextResourceSmall ==
    \E res \in SmallPool(query) : \E before \in Stray(res) : ReconstructVarTree(res, before)
SortLists == \E ties \in {"keep", "swap"} : SortAll(ties)

Next ==
    \/ NextResource
    \/ SortLists

Spec == Init /\ [][Next]_vars

NextTwice ==
    \/ NextResourceSmall
    \/ SortLists
    \/ Restart

SpecTwice == Init /\ [][NextTwice]_vars

----------------------------------------------------------------------------
(* What a record denotes, read off its name alone (not through the walk):  *)
(* the name without a trailing [0], split at the dots, each part a base    *)
(* name with an optional index.                                            *)

EndsInZero(n) == Len(n) >= 3 /\ SubSeq(n, Len(n) - 2, Len(n)) = <<"[", "0", "]">>
Trimmed(n) == IF EndsInZero(n) THEN SubSeq(n, 1, Len(n) - 3) ELSE n

FirstOf(n, c) == CHOOSE i \in 1..Len(n) : n[i] = c /\ \A j \in 1..(i - 1) : n[j] # c
Has(n, c) == \E i \in 1..Len(n) : n[i] = c

RECURSIVE SplitDots(_)
SplitDots(n) ==
    IF Has(n, ".")
    THEN <<SubSeq(n, 1, FirstOf(n, ".") - 1)>> \o SplitDots(SubSeq(n, FirstOf(n, ".") + 1, Len(n)))
    ELSE <<n>>

RECURSIVE Decimal(_)
Decimal(ds) == IF ds = <<>> THEN 0
               ELSE 10 * Decimal(SubSeq(ds, 1, Len(ds) - 1)) + DigitVal(ds[Len(ds)])

\* idx = -1: the part carries no index
Part(t) ==
    IF Has(t, "[")
    THEN [base |-> SubSeq(t, 1, FirstOf(t, "[") - 1),
          idx  |-> Decimal(SubSeq(t, FirstOf(t, "[") + 1, Len(t) - 1))]
    ELSE [base |-> t, idx |-> -1]

PathOfName(n) == LET parts == SplitDots(Trimmed(n))
                 IN [k \in 1..Len(parts) |-> Part(parts[k])]

\* the paths of the names the driver can report, computed once
NamePaths == [n \in {r.name : r \in LooseResources \cup BlockResources} |-> PathOfName(n)]
PathOf(res) == NamePaths[res.name]

Bases(path, k) == [j \in 1..k |-> path[j].base]

\* part k is arrived at: every part before it has index 0 or none
Reached(path, k) == \A j \in 1..(k - 1) : path[j].idx <= 0

\* the last part still carries an index: a bare indexed leaf
BareIndexed(res) == PathOf(res)[Len(PathOf(res))].idx >= 0

Ungrouped == <<"ungrouped">>
Nowhere == <<"nowhere">>

\* the sibling list a record is meant for, from its block index alone
ListFor(res) ==
    IF res.blockIndex >= 0 /\ res.blockIndex < NumBlocks THEN <<"group", res.blockIndex>>
    ELSE IF query = "eGL_UNIFORM" THEN Ungrouped ELSE Nowhere

ListIds == {<<"group", i>> : i \in 0..(NumBlocks - 1)}
           \cup (IF HasDefaultBlock(query) THEN {Ungrouped} ELSE {})
TopList(id) == IF id = Ungrouped THEN globalUniforms ELSE parentBlocks[id[2] + 1]

\* the records of hist that have been visited, are of a numeric kind and
\* have a list to go to
Visited == 1..(IF run = 1 THEN Len(hist) ELSE varIdx)
Counted == {k \in Visited : IsVariableType(hist[k].type) /\ ListFor(hist[k]) # Nowhere}

\* the record ends in a plain leaf name that the descent arrives at
GivesLeaf(res) ==
    LET path == PathOf(res) IN Reached(path, Len(path)) /\ path[Len(path)].idx = -1

Named(list, b) == {i \in 1..Len(list) : list[i].name = b}

\* the members found by following base names down from a list; <<>> where
\* a name is missing
RECURSIVE ListAt(_, _)
ListAt(list, bases) ==
    IF bases = <<>> THEN list
    ELSE IF Named(list, Head(bases)) = {} THEN <<>>
    ELSE ListAt(list[CHOOSE i \in Named(list, Head(bases)) : TRUE].type.members, Tail(bases))

\* every sibling list of a tree: <<path of base names, list>>
RECURSIVE ListsUnder(_, _)
ListsUnder(list, at) ==
    {<<at, list>>} \cup
    UNION {ListsUnder(list[i].type.members, Append(at, list[i].name)) : i \in 1..Len(list)}

AllLists == UNION {{<<id, e[1], e[2]>> : e \in ListsUnder(TopList(id), <<>>)} : id \in ListIds}

IsStruct(node) == node.type.descriptor.name = "struct"

RECURSIVE CountLeaves(_)
RECURSIVE SumLeaves(_, _)
SumLeaves(list, i) ==
    IF i > Len(list) THEN 0 ELSE CountLeaves(list[i]) + SumLeaves(list, i + 1)
CountLeaves(node) ==
    (IF IsStruct(node) THEN 0 ELSE 1) + SumLeaves(node.type.members, 1)

SetMax(S) == CHOOSE m \in S : \A x \in S : x <= m

----------------------------------------------------------------------------
(* C1-C8: the tree builder *)

\* structure parts seen with an index: <<list id, bases above, base, index>>
SeenIndexed ==
    UNION { { <<ListFor(hist[k]), Bases(PathOf(hist[k]), j - 1),
                PathOf(hist[k])[j].base, PathOf(hist[k])[j].idx>> :
              j \in {j \in 1..(Len(PathOf(hist[k])) - 1) :
                        Reached(PathOf(hist[k]), j) /\ PathOf(hist[k])[j].idx >= 0} } :
            k \in Counted }

\* a leaf path of one record is a structure path of another record of the
\* same list, or a record is a bare indexed leaf
IllFormed ==
    \/ \E k \in Counted : BareIndexed(hist[k])
    \/ \E k1, k2 \in Counted :
          LET p1 == PathOf(hist[k1])
              p2 == PathOf(hist[k2])
          IN /\ ListFor(hist[k1]) = ListFor(hist[k2])
             /\ Len(p1) < Len(p2)
             /\ Bases(p1, Len(p1)) = Bases(p2, Len(p1))

\* C1: for well-formed records, every structure name seen with array indices
\* in a sibling list has exactly one node in that list, whose elements is
\* the largest index seen for it plus one.
C1_MergeCorrect ==
    ~IllFormed =>
      \A e \in SeenIndexed :
         LET list == ListAt(TopList(e[1]), e[2])
             same == {f \in SeenIndexed : f[1] = e[1] /\ f[2] = e[2] /\ f[3] = e[3]}
         IN /\ Cardinality(Named(list, e[3])) = 1
            /\ \A i \in Named(list, e[3]) :
                  list[i].type.descriptor.elements = SetMax({f[4] : f \in same}) + 1

\* foo[0].x and foo[2].x have both been processed into the ungrouped list
C1_Witness ==
    /\ ~IllFormed
    /\ \E k1, k2 \in Counted :
          /\ hist[k1].name = nFoo0x /\ hist[k2].name = nFoo2x
          /\ ListFor(hist[k1]) = Ungrouped /\ ListFor(hist[k2]) = Ungrouped
    /\ \E i \in Named(globalUniforms, nFoo) :
          /\ globalUniforms[i].type.descriptor.elements = 3
          /\ Len(globalUniforms[i].type.members) = 1
          /\ globalUniforms[i].type.members[1].name = nX

\* C2: every node of every sibling list was named by a record whose
\* earlier parts all have index 0 or none: a part with an index above 0
\* adds nothing beneath it.
C2_ZeroOnlyDetail ==
    \A e \in AllLists :
       \A i \in 1..Len(e[3]) :
          \E k \in Counted :
             LET path == PathOf(hist[k])
                 d == Len(e[2]) + 1
             IN /\ ListFor(hist[k]) = e[1]
                /\ Len(path) >= d
                /\ Bases(path, d) = Append(e[2], e[3][i].name)
                /\ Reached(path, d)

\* foo[0].x and foo[1].y are processed (in either order): foo has member x
\* and no member y
C2_Witness ==
    /\ \E k1, k2 \in Counted :
          /\ hist[k1].name = nFoo0x /\ hist[k2].name = nFoo1y
          /\ ListFor(hist[k1]) = Ungrouped /\ ListFor(hist[k2]) = Ungrouped
    /\ \E i \in Named(globalUniforms, nFoo) :
          /\ globalUniforms[i].type.descriptor.elements >= 2
          /\ Named(globalUniforms[i].type.members, nX) # {}
          /\ Named(globalUniforms[i].type.members, nY) = {}

\* C3: no sibling list holds two nodes of one name (a record whose leaf
\* name is already in its list replaces that node)
C3_UniqueNames ==
    \A e \in AllLists : \A i, j \in 1..Len(e[3]) : e[3][i].name = e[3][j].name => i = j

\* two records of one list denote the same path
SamePathTwice ==
    \E k1, k2 \in Counted :
       /\ k1 # k2
       /\ ListFor(hist[k1]) = ListFor(hist[k2])
       /\ LET p1 == PathOf(hist[k1])
              p2 == PathOf(hist[k2])
          IN Bases(p1, Len(p1)) = Bases(p2, Len(p2))
             /\ GivesLeaf(hist[k1]) /\ GivesLeaf(hist[k2])

LeafNodes(id) == SumLeaves(TopList(id), 1)

\* what the lists do hold: names are unique as long as no two records
\* denote the same leaf and none is ill-formed, and every record that ends
\* in a reached leaf has added one node (push_back, nothing is overwritten)
LeafPerRecord ==
    /\ (~IllFormed /\ ~SamePathTwice) => C3_UniqueNames
    /\ \A id \in ListIds :
          LeafNodes(id) = Cardinality({k \in Counted : ListFor(hist[k]) = id /\ GivesLeaf(hist[k])})

\* a before-or-equal b as the pair (major index, minor index)
PairLeq(a, b) == a.vec < b.vec \/ (a.vec = b.vec /\ a.comp <= b.comp)

\* C4: after the sort step every sibling list, at every depth, is in
\* non-decreasing storage order.
C4_SortedEverywhere ==
    tpc = "done" =>
       \A e \in AllLists :
          \A i, j \in 1..Len(e[3]) : i < j => PairLeq(e[3][i].reg, e[3][j].reg)

\* leaves come in with orders 3, 1, 2 and leave as 1, 2, 3, and a nested
\* list whose members arrived as 2, 1 has been put in order
C4_Witness ==
    /\ tpc = "done" /\ Len(hist) = 3
    /\ \/ /\ [k \in 1..3 |-> hist[k].location] = <<3, 1, 2>>
          /\ \A k \in 1..3 : Len(PathOf(hist[k])) = 1 /\ GivesLeaf(hist[k])
          /\ [k \in 1..3 |-> globalUniforms[k].reg.vec] = <<1, 2, 3>>
       \/ /\ hist[1].name = nFoo0x /\ hist[2].name = nFoo0s1
          /\ \E e \in AllLists :
                e[2] = <<nFoo>> /\ [k \in 1..Len(e[3]) |-> e[3][k].reg.vec] = <<1, 2>>

\* the sorted lists of the pass in progress / just ended
Lists == [blocks |-> parentBlocks, dflt |-> globalUniforms]

Called == hist'[varIdx']

\* C6: a call changes no list but the one its record's block index selects,
\* and a record ending in a leaf does change that one.
C6_TargetSelection ==
    [][ varIdx' = varIdx + 1 =>
          /\ \A id \in ListIds : id # ListFor(Called) => TopList(id)' = TopList(id)
          /\ \A id \in ListIds :
                (id = ListFor(Called) /\ IsVariableType(Called.type) /\ GivesLeaf(Called))
                   => TopList(id)' # TopList(id)
       ]_vars

\* one record went to group 1, one with block index 5 to the ungrouped list
C6_Witness ==
    /\ Len(hist) = 2
    /\ hist[1].blockIndex = 1 /\ hist[2].blockIndex = 5
    /\ Len(parentBlocks[1]) = 0 /\ Len(parentBlocks[2]) = 1
    /\ Len(globalUniforms) = 1 /\ globalUniforms[1].name = nX

\* C7: with no ungrouped list, a call for a record whose block index
\* selects no group leaves every list as it was, and the loop goes on.
C7_OrphanDropped ==
    [][ (varIdx' = varIdx + 1 /\ ListFor(Called) = Nowhere) =>
          /\ parentBlocks' = parentBlocks
          /\ globalUniforms' = globalUniforms
          /\ tpc' = "build"
       ]_vars

\* block index 5 of 2 was dropped and the record after it was placed
C7_Witness ==
    /\ query = "eGL_BUFFER_VARIABLE" /\ Len(hist) = 2
    /\ hist[1].blockIndex = 5 /\ IsVariableType(hist[1].type)
    /\ hist[2].blockIndex = 0 /\ hist[2].name = nX
    /\ Len(parentBlocks[1]) = 1 /\ Len(parentBlocks[2]) = 0 /\ globalUniforms = <<>>

\* C8: a call for a bare indexed leaf leaves every list as it was (no node,
\* ancestors included, is created or changed)
C8_MalformedDropped ==
    [][ (varIdx' = varIdx + 1 /\ BareIndexed(Called)) =>
          /\ parentBlocks' = parentBlocks
          /\ globalUniforms' = globalUniforms
       ]_vars

----------------------------------------------------------------------------
(* DisassembleSPIRV *)

\* enumerants of spirv.h, numbered as the stream encodes them
MagicNumber == 119734787       \* 0x07230203
GlslangGenerator == 85590203   \* 0x051a00bb
OpNop == 0
OpSource == 1
OpExtInstImport == 4
OpMemoryModel == 5
OpEntryPoint == 6
OpFunction == 40
OpFunctionEnd == 42
OpName == 54
OpLabel == 208

\* the first word of an instruction: length in the top 16 bits, tag below
MkOp(wc, op) == wc * 65536 + op
WordCountOf(w) == (w \div 65536) % 65536
OpCodeOf(w) == w % 65536

\* ToStr::Get(spv::Op)
ToStrOp(op) ==
    CASE op = OpNop -> "Nop"
      [] op = OpSource -> "Source"
      [] op = OpExtInstImport -> "ExtInstImport"
      [] op = OpMemoryModel -> "MemoryModel"
      [] op = OpEntryPoint -> "EntryPoint"
      [] op = OpFunction -> "Function"
      [] op = OpFunctionEnd -> "FunctionEnd"
      [] op = OpName -> "Name"
      [] op = OpLabel -> "Label"
      [] OTHER -> "Unrecognised"

Lookup(table, v) == IF v >= 0 /\ v < Len(table) THEN table[v + 1] ELSE "Unrecognised"
ToStrSourceLanguage(v) == Lookup(<<"Unknown", "ESSL", "GLSL", "OpenCL">>, v)
ToStrAddressingModel(v) == Lookup(<<"Logical", "Physical (32-bit)", "Physical (64-bit)">>, v)
ToStrMemoryModel(v) ==
    Lookup(<<"Simple", "GLSL450", "OpenCL12", "OpenCL20", "OpenCL21">>, v)
ToStrExecutionModel(v) ==
    Lookup(<<"Vertex Shader", "Tess. Control Shader", "Tess. Eval Shader", "Geometry Shader",
             "Fragment Shader", "Compute Shader", "Kernel">>, v)

\* spirv[k] (k from 0); outside the vector the read returns whatever lies
\* there (junk)
InStream(k) == k >= 0 /\ k < Len(spirv)
Word(k, junk) == IF InStream(k) THEN spirv[k + 1] ELSE junk

\* the bytes of a word, lowest first, and the C string that starts at
\* &spirv[k]: character codes up to the first zero byte
ByteOf(w, i) == (w \div (256 ^ i)) % 256
RECURSIVE StringAt(_, _, _)
StringAt(k, i, junk) ==
    LET b == ByteOf(Word(k, junk), i)
    IN IF b = 0 THEN <<>>
       ELSE <<b>> \o (IF i = 3 THEN StringAt(k + 1, 0, junk) ELSE StringAt(k, i + 1, junk))

\* the words a C string at &spirv[k] reads reach past the stream
RECURSIVE StringPastEnd(_)
StringPastEnd(k) ==
    IF ~InStream(k) THEN TRUE
    ELSE IF \E i \in 0..3 : ByteOf(spirv[k + 1], i) = 0 THEN FALSE
    ELSE StringPastEnd(k + 1)

\* StringFormat::Fmt("<%d>", i) as character codes
RECURSIVE DecimalCodes(_)
DecimalCodes(n) == IF n < 10 THEN <<48 + n>> ELSE Append(DecimalCodes(n \div 10), 48 + (n % 10))
\* faulty variant: the loop at 2163-2165 leaves the empty names empty
Placeholder_Empty(i) == <<>>
Placeholder(i) == <<60>> \o DecimalCodes(i) \o <<62>>

\* one line of the text: what it is, the number printed before an
\* instruction inside a function (NoNumber: none), mnemonic and body
NoNumber == -1
Line(kind, num, op, body) == [kind |-> kind, num |-> num, op |-> op, body |-> body]

ShaderHeader == "Vertex Shader"
Junk == {0, 65}

\* faulty variant: the magic number is not checked
Recognised_Always(w) == TRUE

\* the test at 2120
Recognised(w) == w = MagicNumber

\* 2117-2148: the banner, the magic check, the header lines and the locals
Disassemble(junk) ==
    /\ dpc = "entry"
    /\ LET banner == <<Line("banner", NoNumber, "", <<ShaderHeader, " SPIR-V:">>),
                      Line("blank", NoNumber, "", <<>>)>>
           idbound == Word(3, junk)
       IN IF ~Recognised(Word(0, junk))
          THEN /\ disasm' = banner \o
                     <<Line("magic", NoNumber, "", <<"Unrecognised magic number", Word(0, junk)>>)>>
               /\ dpc' = "done"
               /\ stray' = ~InStream(0)
               /\ UNCHANGED <<it, opidx, infunc, resultnames>>
          ELSE /\ disasm' = banner \o
                     <<Line("version", NoNumber, "",
                            <<Word(1, junk), Word(2, junk),
                              IF Word(2, junk) = GlslangGenerator THEN "glslang"
                                                                  ELSE "Unrecognised">>),
                       Line("ids", NoNumber, "", <<idbound>>)>> \o
                     (IF Word(4, junk) # 0
                      THEN <<Line("reserved", NoNumber, "", <<>>)>> ELSE <<>>) \o
                     <<Line("blank", NoNumber, "", <<>>)>>
               /\ opidx' = 0
               /\ infunc' = FALSE
               /\ resultnames' = [i \in 1..idbound |-> <<>>]
               /\ it' = 5
               /\ dpc' = "pass1"
               /\ stray' = ~InStream(4)
    /\ UNCHANGED <<spirv, beat, treeVars, other, auxVars>>

\* 2152-2161: one instruction of the first pass.  A name for an id outside
\* the table is a write outside it: the call dies or the write lands
\* elsewhere.
FetchName(junk, dies) ==
    /\ dpc = "pass1"
    /\ it < Len(spirv)
    /\ LET WordCount == WordCountOf(spirv[it + 1])
           OpCode == OpCodeOf(spirv[it + 1])
           id == Word(it + 1, junk)
           inTable == id < Len(resultnames)
       IN /\ IF OpCode = OpName
             THEN /\ resultnames' = IF inTable
                                    THEN [resultnames EXCEPT ![id + 1] = StringAt(it + 2, 0, junk)]
                                    ELSE resultnames
                  /\ stray' = (stray \/ ~inTable \/ ~InStream(it + 1) \/ StringPastEnd(it + 2))
                  /\ dpc' = IF ~inTable /\ dies THEN "fault" ELSE dpc
             ELSE UNCHANGED <<resultnames, stray, dpc>>
          /\ it' = it + WordCount
    /\ beat' = ~beat
    /\ UNCHANGED <<spirv, opidx, infunc, disasm, treeVars, other, auxVars>>

\* 2163-2167: the ids left without a name get "<id>", and the cursor goes
\* back to the first instruction
FillNames ==
    /\ dpc = "pass1"
    /\ it >= Len(spirv)
    /\ resultnames' = [i \in 1..Len(resultnames) |->
                          IF resultnames[i] = <<>> THEN Placeholder(i - 1) ELSE resultnames[i]]
    /\ it' = 5
    /\ dpc' = "pass2"
    /\ UNCHANGED <<spirv, opidx, infunc, disasm, stray, beat, treeVars, other, auxVars>>

\* faulty variant: the entry point is printed while the names are still
\* being collected, so it shows the placeholder of its id
BodyOf_Unresolved(OpCode, junk) ==
    IF OpCode = OpEntryPoint
    THEN <<Placeholder(Word(it + 2, junk)), ToStrExecutionModel(Word(it + 1, junk))>>
    ELSE <<>>

\* the body the switch at 2176-2206 builds
BodyOf(OpCode, junk) ==
    CASE OpCode = OpSource ->
            <<ToStrSourceLanguage(Word(it + 1, junk)), Word(it + 2, junk)>>
      [] OpCode = OpExtInstImport -> <<StringAt(it + 2, 0, junk)>>
      [] OpCode = OpMemoryModel ->
            <<ToStrAddressingModel(Word(it + 1, junk)), ToStrMemoryModel(Word(it + 2, junk))>>
      [] OpCode = OpEntryPoint ->
            <<IF Word(it + 2, junk) < Len(resultnames)
                 THEN resultnames[Word(it + 2, junk) + 1] ELSE <<junk>>,
              ToStrExecutionModel(Word(it + 1, junk))>>
      [] OTHER -> <<>>

\* whether the switch reads or writes outside the stream or the table
StraysIn(OpCode, junk) ==
    CASE OpCode = OpSource -> ~InStream(it + 2)
      [] OpCode = OpExtInstImport ->
            ~InStream(it + 1) \/ StringPastEnd(it + 2) \/ Word(it + 1, junk) >= Len(resultnames)
      [] OpCode = OpMemoryModel -> ~InStream(it + 2)
      [] OpCode = OpEntryPoint -> ~InStream(it + 2) \/ Word(it + 2, junk) >= Len(resultnames)
      [] OTHER -> FALSE

\* faulty variant: the end of a function does not clear the flag
InFuncAfter_NoEnd(OpCode, was) == IF OpCode = OpFunction THEN TRUE ELSE was

\* infunc after the switch
InFuncAfter(OpCode, was) ==
    IF OpCode = OpFunction THEN TRUE
    ELSE IF OpCode = OpFunctionEnd THEN FALSE
    ELSE was

\* silent after the switch
Silent(OpCode) == OpCode = OpName

\* faulty variant: the numbers start at 1
EmitLine_FromOne(text, inside, silent, idx, OpCode, body) ==
    IF inside THEN Append(text, Line("op", idx + 1, ToStrOp(OpCode), body))
    ELSE IF ~silent THEN Append(text, Line("op", NoNumber, ToStrOp(OpCode), body))
    ELSE text

\* 2208-2216: the line of one instruction, if it has one
EmitLine(text, inside, silent, idx, OpCode, body) ==
    IF inside THEN Append(text, Line("op", idx, ToStrOp(OpCode), body))
    ELSE IF ~silent THEN Append(text, Line("op", NoNumber, ToStrOp(OpCode), body))
    ELSE text

\* 2168-2219: one instruction of the second pass
Format(junk, dies) ==
    /\ dpc = "pass2"
    /\ it < Len(spirv)
    /\ LET WordCount == WordCountOf(spirv[it + 1])
           OpCode == OpCodeOf(spirv[it + 1])
           body == BodyOf(OpCode, junk)
           inside == InFuncAfter(OpCode, infunc)
           id == Word(it + 1, junk)
           offTable == \/ OpCode = OpExtInstImport /\ id >= Len(resultnames)
                       \/ OpCode = OpEntryPoint /\ Word(it + 2, junk) >= Len(resultnames)
       IN /\ resultnames' = IF OpCode = OpExtInstImport /\ id < Len(resultnames)
                            THEN [resultnames EXCEPT ![id + 1] = StringAt(it + 2, 0, junk)]
                            ELSE resultnames
          /\ stray' = (stray \/ StraysIn(OpCode, junk))
          /\ IF offTable /\ dies
             THEN /\ dpc' = "fault"
                  /\ UNCHANGED <<infunc, disasm, opidx, it>>
             ELSE /\ infunc' = inside
                  /\ disasm' = EmitLine(disasm, inside, Silent(OpCode), opidx, OpCode, body)
                  /\ opidx' = IF inside THEN opidx + 1 ELSE opidx
                  /\ it' = it + WordCount
                  /\ dpc' = dpc
    /\ beat' = ~beat
    /\ UNCHANGED <<spirv, treeVars, other, auxVars>>

\* 2168, 2220: the cursor is past the last word and the function returns
Return ==
    /\ dpc = "pass2"
    /\ it >= Len(spirv)
    /\ dpc' = "done"
    /\ UNCHANGED <<spirv, it, opidx, infunc, resultnames, disasm, stray, beat, treeVars, other, auxVars>>

----------------------------------------------------------------------------
(* The streams handed to DisassembleSPIRV *)

MaxInstr == 6       \* instructions in a stream

iFunction    == <<MkOp(1, OpFunction)>>
iFunctionEnd == <<MkOp(1, OpFunctionEnd)>>
iLabel       == <<MkOp(2, OpLabel), 1>>
iName        == <<MkOp(3, OpName), 1, 97>>

ScopeInstrs == {iFunction, iFunctionEnd, iLabel, iName}

\* instructions that refer to ids: the entry point names id 1, the import
\* is id 0 and called "b"
MaxNamed == 3       \* instructions in a stream of the naming family
iEntryPoint  == <<MkOp(3, OpEntryPoint), 4, 1>>
iImport      == <<MkOp(3, OpExtInstImport), 0, 98>>
iSource      == <<MkOp(3, OpSource), 2, 450>>
iMemoryModel == <<MkOp(3, OpMemoryModel), 0, 1>>

\* an assign-name instruction for id 1 whose string is empty
iNameEmpty   == <<MkOp(3, OpName), 1, 0>>
NameInstrs == {iEntryPoint, iName, iNameEmpty, iImport, iSource, iMemoryModel}

\* streams that do not keep to the format: an instruction of length 0, a
\* last instruction cut short, an id at or above the declared bound
iZero        == <<MkOp(0, OpNop)>>
iNameOff     == <<MkOp(3, OpName), 7, 97>>
iEntryOff    == <<MkOp(3, OpEntryPoint), 4, 7>>
iImportOff   == <<MkOp(3, OpExtInstImport), 7, 98>>
iNameOpen    == <<MkOp(3, OpName), 1, 1633771873>>

CorruptBodies ==
    { iZero, iLabel \o iZero \o iLabel, iNameOff, iEntryOff, iImportOff, iNameOpen,
      <<MkOp(3, OpName), 1>>, <<MkOp(3, OpName)>>, <<MkOp(3, OpEntryPoint), 4>>,
      <<MkOp(3, OpSource), 2>>, <<MkOp(3, OpMemoryModel)>>, <<MkOp(3, OpExtInstImport)>>,
      iFunction \o <<MkOp(4, OpLabel), 1>> }

RECURSIVE Flatten(_)
Flatten(ss) == IF ss = <<>> THEN <<>> ELSE Head(ss) \o Flatten(Tail(ss))

Bodies(instrs, n) == UNION {{Flatten(f) : f \in [1..k -> instrs]} : k \in 0..n}

\* magic, version, generator, id bound, reserved word
Headers == {<<m, 99, GlslangGenerator, 2, r>> : m \in {MagicNumber, MagicNumber + 1}, r \in {0, 1}}

\* a header cut short: the first n words
ShortStreams == {SubSeq(h, 1, n) : h \in Headers, n \in 0..4}

Streams ==
    {h \o b : h \in Headers, b \in Bodies(ScopeInstrs, MaxInstr)}
    \cup {h \o b : h \in Headers, b \in Bodies(NameInstrs, MaxNamed)}
    \cup {h \o b : h \in Headers, b \in CorruptBodies}
    \cup ShortStreams

NoReflection ==
    /\ query = "eGL_UNIFORM"
    /\ parentBlocks = <<>>
    /\ globalUniforms = <<>>
    /\ hist = <<>>
    /\ varIdx = 0
    /\ tpc = "off"
    /\ sortTies = "unknown"
    /\ run = 1
    /\ prev = [blocks |-> <<>>, dflt |-> <<>>]

InitDis ==
    /\ NoReflection
    /\ spirv \in Streams
    /\ dpc = "entry"
    /\ it = 0
    /\ opidx = 0
    /\ infunc = FALSE
    /\ resultnames = <<>>
    /\ disasm = <<>>
    /\ stray = FALSE
    /\ beat = FALSE
    /\ other = Alone
    /\ NoResources /\ NoSignature /\ NoUses /\ NoPatch

\* what lies outside the stream matters only to a step that reads there
JunkAt(k) == IF InStream(k) /\ ~StringPastEnd(k) THEN {0} ELSE Junk

Enter == \E junk \in JunkAt(4) : Disassemble(junk)
Pass1 == \E junk \in JunkAt(it + 2) : \E dies \in BOOLEAN : FetchName(junk, dies)
Pass2 == \E junk \in JunkAt(it + 2) : \E dies \in BOOLEAN : Format(junk, dies)

NextDis ==
    \/ Enter
    \/ Pass1
    \/ FillNames
    \/ Pass2
    \/ Return

SpecDis == InitDis /\ [][NextDis]_vars

\* the call runs on: whenever it can take a step, it does
SpecDisFair == InitDis /\ [][NextDis]_vars /\ WF_vars(NextDis)

----------------------------------------------------------------------------
(* C9, C10: the disassembler *)

OpLines == SelectSeq(disasm, LAMBDA l : l.kind = "op")
Mismatch == Len(spirv) > 0 /\ spirv[1] # MagicNumber

\* C9 as claimed: after a magic mismatch the output is exactly one line
C9_OneLine ==
    (dpc = "done" /\ Mismatch) => Len(disasm) = 1

\* C9 as amended: after a magic mismatch the output is the banner, a blank
\* line and one line that carries the mismatched word; neither pass has run
\* and no instruction has a line.
C9_MagicMismatch ==
    (dpc # "entry" /\ Mismatch) =>
       /\ dpc = "done"
       /\ Len(disasm) = 3
       /\ disasm[1].kind = "banner" /\ disasm[2].kind = "blank"
       /\ disasm[3].kind = "magic" /\ disasm[3].body[2] = spirv[1]
       /\ OpLines = <<>>
       /\ it = 0 /\ resultnames = <<>> /\ ~stray

\* a stream with a wrong first word and instructions behind the header
C9_Witness ==
    /\ dpc = "done" /\ Mismatch
    /\ Len(spirv) > 5
    /\ Len(disasm) = 3

\* scope-begin, three ordinary instructions, scope-end, with ordinary
\* instructions before (p of them) and behind (q)
ScopeStream(p, q) ==
    Flatten([k \in 1..p |-> iLabel]) \o
    Flatten(<<iFunction, iLabel, iLabel, iLabel, iFunctionEnd>>) \o
    Flatten([k \in 1..q |-> iLabel])

IsScopeStream(p, q) ==
    /\ Len(spirv) >= 5 /\ spirv[1] = MagicNumber
    /\ SubSeq(spirv, 6, Len(spirv)) = ScopeStream(p, q)

Around == {pq \in (0..MaxInstr) \X (0..MaxInstr) : pq[1] + pq[2] + 5 <= MaxInstr}

Numbers(lines) == [k \in 1..Len(lines) |-> lines[k].num]
Mnemonics(lines) == [k \in 1..Len(lines) |-> lines[k].op]

\* C10 as claimed: the three instructions inside the scope are numbered
\* 0, 1, 2
C10_Numbers012 ==
    \A pq \in Around :
       (dpc = "done" /\ IsScopeStream(pq[1], pq[2])) =>
          SubSeq(Numbers(OpLines), pq[1] + 2, pq[1] + 4) = <<0, 1, 2>>

\* C10 as amended: the scope-begin line is numbered 0 and the three
\* instructions behind it 1, 2, 3; the scope-end line and the lines of the
\* instructions outside the scope carry no number.
C10_ScopeNumbering ==
    \A pq \in Around :
       (dpc = "done" /\ IsScopeStream(pq[1], pq[2])) =>
          /\ Mnemonics(OpLines) =
                [k \in 1..pq[1] |-> "Label"] \o
                <<"Function", "Label", "Label", "Label", "FunctionEnd">> \o
                [k \in 1..pq[2] |-> "Label"]
          /\ Numbers(OpLines) =
                [k \in 1..pq[1] |-> NoNumber] \o
                <<0, 1, 2, 3, NoNumber>> \o
                [k \in 1..pq[2] |-> NoNumber]
          /\ \A k \in 1..Len(disasm) : disasm[k].kind # "op" => disasm[k].num = NoNumber

\* the stream of the claim has been disassembled to its end
C10_Witness ==
    /\ dpc = "done" /\ IsScopeStream(0, 0)
    /\ Len(OpLines) = 5

----------------------------------------------------------------------------
(* C11-C16: the instructions of a stream, read off the words *)

\* positions (from 0) of the first words of the instructions, following the
\* declared lengths from word 5; a length of 0 ends the list
RECURSIVE InstrsFrom(_)
InstrsFrom(k) ==
    IF k >= Len(spirv) THEN <<>>
    ELSE IF WordCountOf(spirv[k + 1]) = 0 THEN <<k>>
    ELSE <<k>> \o InstrsFrom(k + WordCountOf(spirv[k + 1]))

Instrs == InstrsFrom(5)
OpAt(k) == OpCodeOf(spirv[k + 1])
Matched == Len(spirv) >= 5 /\ spirv[1] = MagicNumber
HasOp(op) == \E j \in 1..Len(Instrs) : OpAt(Instrs[j]) = op

\* the instructions that are not assign-name instructions
Unnamed == SelectSeq(Instrs, LAMBDA k : OpAt(k) # OpName)

\* the name an id has once the whole stream has been scanned: the string of
\* its last assign-name instruction, "<id>" without one or when that string
\* is empty
NamersOf(id) == {j \in 1..Len(Instrs) : OpAt(Instrs[j]) = OpName /\ spirv[Instrs[j] + 2] = id}
LiteralOf(j) == StringAt(Instrs[j] + 2, 0, 0)
AssignedName(id) ==
    IF NamersOf(id) = {} \/ LiteralOf(SetMax(NamersOf(id))) = <<>> THEN Placeholder(id)
    ELSE LiteralOf(SetMax(NamersOf(id)))

\* the ids that import instructions define (their strings go into the name
\* table during the second pass, line 2182)
Imported == {spirv[Instrs[j] + 2] : j \in {j \in 1..Len(Instrs) : OpAt(Instrs[j]) = OpExtInstImport}}

\* C11: in a finished disassembly of a stream without functions, every
\* entry-point line shows the name that the assign-name instruction of the
\* referenced id gives it, whether that instruction stands before or after
\* the entry point ("<id>" if the id has none).
C11_NameResolved ==
    (dpc = "done" /\ Matched /\ ~stray /\ ~HasOp(OpFunction)) =>
       /\ Len(OpLines) = Len(Unnamed)
       /\ \A j \in 1..Len(Unnamed) :
             (OpAt(Unnamed[j]) = OpEntryPoint /\ spirv[Unnamed[j] + 3] \notin Imported) =>
                OpLines[j].body[1] = AssignedName(spirv[Unnamed[j] + 3])

\* the entry point comes first and the name of its id after it
C11_Witness ==
    /\ dpc = "done" /\ Matched /\ ~stray
    /\ SubSeq(spirv, 6, Len(spirv)) = iEntryPoint \o iName
    /\ Len(OpLines) = 1
    /\ OpLines[1].op = "EntryPoint" /\ OpLines[1].body[1] = <<97>>

\* C12: the disassembly of a stream with a matching magic number comes to
\* an end (it returns or it is cut off by a fatal error)
C12_Terminates ==
    Matched => <>(dpc \in {"done", "fault"})

\* C13: no step reads a word at or past the end of the stream or uses an
\* id at or above the declared bound as an index into the name table
C13_InBounds == ~stray

\* C14: the finished text has one line per instruction that is not an
\* assign-name instruction, in stream order, and none for an assign-name
\* instruction, inside a function as well as outside
C14_NamesSilent ==
    (dpc = "done" /\ Matched /\ ~stray) =>
       Mnemonics(OpLines) = [j \in 1..Len(Unnamed) |-> ToStrOp(OpAt(Unnamed[j]))]

----------------------------------------------------------------------------
(* Two invocations, interleaved.  Neither function has static or global    *)
(* variables: an invocation is its arguments, its locals and the container *)
(* it writes, and a switch puts one invocation aside and resumes the other.*)
(* The library's order of equal elements belongs to the build, not to an   *)
(* invocation.                                                             *)

MaxSwitches == 3    \* switches between the two invocations

\* the running invocation, put aside after n switches
Suspended(n) ==
    [ switches |-> n,
      query |-> query, parentBlocks |-> parentBlocks, globalUniforms |-> globalUniforms,
      hist |-> hist, varIdx |-> varIdx, tpc |-> tpc, run |-> run, prev |-> prev,
      spirv |-> spirv, dpc |-> dpc, it |-> it, opidx |-> opidx, infunc |-> infunc,
      resultnames |-> resultnames, disasm |-> disasm, stray |-> stray,
      beat |-> beat ]

\* faulty variant: opidx is a static of the function, one for all invocations
OwnCounter_Static(mine, theirs) == mine

\* opidx is a local of the invocation (2144): the resumed invocation goes
\* on with its own
OwnCounter(mine, theirs) == theirs

Switch ==
    /\ other.switches < MaxSwitches
    /\ other' = Suspended(other.switches + 1)
    /\ query' = other.query
    /\ parentBlocks' = other.parentBlocks
    /\ globalUniforms' = other.globalUniforms
    /\ hist' = other.hist
    /\ varIdx' = other.varIdx
    /\ tpc' = other.tpc
    /\ run' = other.run
    /\ prev' = other.prev
    /\ spirv' = other.spirv
    /\ dpc' = other.dpc
    /\ it' = other.it
    /\ opidx' = OwnCounter(opidx, other.opidx)
    /\ infunc' = other.infunc
    /\ resultnames' = other.resultnames
    /\ disasm' = other.disasm
    /\ stray' = other.stray
    /\ beat' = other.beat
    /\ UNCHANGED <<sortTies, auxVars>>

\* the inputs of the interleaved invocations
PairPool(q) ==
    IF q = "eGL_UNIFORM"
    THEN { Loose("eGL_FLOAT", nX, 3), Loose("eGL_FLOAT", nFoo0x, 2) }
    ELSE { InBlock("eGL_FLOAT_VEC4", nX, 0, 32), InBlock("eGL_INT", nFoo2x, 1, 20) }

PairStreams ==
    { <<MagicNumber, 99, GlslangGenerator, 2, 0>> \o Flatten(b) :
        b \in { <<iFunction, iLabel, iName, iFunctionEnd>>,
                <<iLabel, iFunction, iLabel, iLabel>> } }

\* an invocation before its first step: a reflection pass or a disassembly
TreeStart(q) ==
    [ query |-> q, parentBlocks |-> FreshBlocks(<<>>), globalUniforms |-> <<>>,
      hist |-> <<>>, varIdx |-> 0, tpc |-> "build", run |-> 1,
      prev |-> [blocks |-> <<>>, dflt |-> <<>>],
      spirv |-> <<>>, dpc |-> "off", it |-> 0, opidx |-> 0, infunc |-> FALSE,
      resultnames |-> <<>>, disasm |-> <<>>, stray |-> FALSE, beat |-> FALSE ]

DisStart(w) ==
    [ query |-> "eGL_UNIFORM", parentBlocks |-> <<>>, globalUniforms |-> <<>>,
      hist |-> <<>>, varIdx |-> 0, tpc |-> "off", run |-> 1,
      prev |-> [blocks |-> <<>>, dflt |-> <<>>],
      spirv |-> w, dpc |-> "entry", it |-> 0, opidx |-> 0, infunc |-> FALSE,
      resultnames |-> <<>>, disasm |-> <<>>, stray |-> FALSE, beat |-> FALSE ]

Starts ==
    {TreeStart(q) : q \in {"eGL_UNIFORM", "eGL_BUFFER_VARIABLE"}}
    \cup {DisStart(w) : w \in PairStreams}

InitPair ==
    /\ sortTies = "unknown"
    /\ \E f \in Starts :
          /\ query = f.query /\ parentBlocks = f.parentBlocks
          /\ globalUniforms = f.globalUniforms /\ hist = f.hist /\ varIdx = f.varIdx
          /\ tpc = f.tpc /\ run = f.run /\ prev = f.prev
          /\ spirv = f.spirv /\ dpc = f.dpc /\ it = f.it /\ opidx = f.opidx
          /\ infunc = f.infunc /\ resultnames = f.resultnames
          /\ disasm = f.disasm /\ stray = f.stray /\ beat = f.beat
    /\ other \in {[switches |-> 0] @@ f : f \in Starts}
    /\ NoResources /\ NoSignature /\ NoUses /\ NoPatch

NextResourcePair ==
    \E res \in PairPool(query) : \E before \in Stray(res) : ReconstructVarTree(res, before)

NextPair ==
    \/ NextResourcePair
    \/ SortLists
    \/ Enter
    \/ Pass1
    \/ FillNames
    \/ Pass2
    \/ Return
    \/ Switch

SpecPair == InitPair /\ [][NextPair]_vars

\* what an invocation gives when nothing else runs: the lists after the
\* calls for its records, in order, and the sort
RECURSIVE ReplayFrom(_, _, _)
ReplayFrom(q, lists, recs) ==
    IF recs = <<>> THEN lists
    ELSE ReplayFrom(q, Reconstruct(q, lists.blocks, lists.dflt, Head(recs), "?"), Tail(recs))

SortedReplay(q, recs, ties) ==
    LET built == ReplayFrom(q, [blocks |-> FreshBlocks(<<>>), dflt |-> <<>>], recs)
    IN [blocks |-> [i \in 1..Len(built.blocks) |-> SortVars(built.blocks[i], ties)],
        dflt |-> SortVars(built.dflt, ties)]

\* the mnemonic and number of every line the second pass gives the
\* instructions from the j-th on, with the scope flag and the count so far
RECURSIVE ExpectFrom(_, _, _)
ExpectFrom(j, inside, n) ==
    IF j > Len(Instrs) THEN <<>>
    ELSE LET op == OpAt(Instrs[j])
             in == (op = OpFunction) \/ (inside /\ op # OpFunctionEnd)
             line == IF in THEN <<[op |-> ToStrOp(op), num |-> n]>>
                     ELSE IF op # OpName THEN <<[op |-> ToStrOp(op), num |-> NoNumber]>>
                     ELSE <<>>
         IN line \o ExpectFrom(j + 1, in, IF in THEN n + 1 ELSE n)

ExpectedOps == ExpectFrom(1, FALSE, 0)
PrintedOps == [k \in 1..Len(OpLines) |-> [op |-> OpLines[k].op, num |-> OpLines[k].num]]

----------------------------------------------------------------------------
(* C16: numbering over several scopes *)

Numbered == SelectSeq(OpLines, LAMBDA l : l.num # NoNumber)

\* scope-begin and scope-end instructions alternate, beginning with a
\* scope-begin and ending with a scope-end
RECURSIVE ScopedFrom(_, _)
ScopedFrom(j, inside) ==
    IF j > Len(Instrs) THEN ~inside
    ELSE LET op == OpAt(Instrs[j])
         IN /\ op = OpFunction => ~inside
            /\ op = OpFunctionEnd => inside
            /\ ScopedFrom(j + 1, (op = OpFunction) \/ (inside /\ op # OpFunctionEnd))

WellScoped == ScopedFrom(1, FALSE)

\* C16 as claimed: the first numbered line of every scope, the line of its
\* scope-begin instruction, carries 0
C16_PerScope ==
    (dpc = "done" /\ Matched /\ ~stray /\ WellScoped) =>
       \A k \in 1..Len(OpLines) : OpLines[k].op = "Function" => OpLines[k].num = 0

\* C16 as amended: the numbers run through the whole stream.  The numbered
\* lines are those from a scope-begin up to the line before the scope-end,
\* the first of them carries 0 and each next one, in whichever scope, one
\* more than the numbered line before it.
C16_RunningCount ==
    (dpc = "done" /\ Matched /\ ~stray) =>
       /\ Numbers(Numbered) = [k \in 1..Len(Numbered) |-> k - 1]
       /\ PrintedOps = ExpectedOps

\* two scopes of two lines each
C16_Witness ==
    /\ dpc = "done" /\ Matched
    /\ SubSeq(spirv, 6, Len(spirv)) =
          Flatten(<<iFunction, iLabel, iFunctionEnd, iFunction, iLabel, iFunctionEnd>>)
    /\ Numbers(OpLines) = <<0, 1, NoNumber, 2, 3, NoNumber>>

----------------------------------------------------------------------------
(* C17-C20: the tree builder, continued *)

\* the leaf a call has pushed: the last node of the sibling list that the
\* path of the record leads to, in the list id after the call
PushedLeaf(newTop, res) ==
    LET path == PathOf(res)
        sib == ListAt(newTop, Bases(path, Len(path) - 1))
    IN sib[Len(sib)]

\* the call that has just returned was for a record that ends in a leaf of
\* list id
LeafCall(id) ==
    /\ varIdx' = varIdx + 1
    /\ id = ListFor(Called)
    /\ IsVariableType(Called.type)
    /\ GivesLeaf(Called)

\* C17 as claimed: a leaf whose name ended in [0] has elements 0, any other
\* leaf has the array size the driver reported
C17_SuffixZero ==
    [][ \A id \in ListIds : LeafCall(id) =>
           PushedLeaf(TopList(id)', Called).type.descriptor.elements =
              IF EndsInZero(Called.name) THEN 0 ELSE Called.arraySize
      ]_vars

\* C17 as amended: a leaf whose name ended in [0] has the suffix stripped
\* and elements = max(1, reported array size); any other leaf keeps its name
\* and has elements 0.
C17_SuffixKeepsSize ==
    [][ \A id \in ListIds : LeafCall(id) =>
           LET leaf == PushedLeaf(TopList(id)', Called)
               path == PathOf(Called)
           IN /\ leaf.name = path[Len(path)].base
              /\ EndsInZero(Called.name) =>
                    leaf.type.descriptor.elements = Max(1, Called.arraySize)
              /\ ~EndsInZero(Called.name) => leaf.type.descriptor.elements = 0
      ]_vars

\* x[0] with array size 4 gave a leaf x of 4 elements and a plain y with
\* array size 1 a leaf of 0 elements
C17_Witness ==
    /\ query = "eGL_UNIFORM"
    /\ \E k \in Counted : hist[k].name = nXarr /\ hist[k].arraySize = 4
    /\ \E k \in Counted : hist[k].name = nY /\ hist[k].arraySize = 1
    /\ \E i, j \in 1..Len(globalUniforms) :
          /\ globalUniforms[i].name = nX /\ globalUniforms[i].type.descriptor.elements = 4
          /\ globalUniforms[j].name = nY /\ globalUniforms[j].type.descriptor.elements = 0

\* the structure nodes of the tree: <<list id, path of base names, node>>
StructNodes ==
    UNION {{<<e[1], Append(e[2], e[3][i].name), e[3][i]>> :
               i \in {i \in 1..Len(e[3]) : IsStruct(e[3][i])}} : e \in AllLists}

\* the records whose walk passes through the structure at this path
Through(id, at) ==
    {k \in Counted :
        /\ ListFor(hist[k]) = id
        /\ Len(PathOf(hist[k])) > Len(at)
        /\ Bases(PathOf(hist[k]), Len(at)) = at
        /\ Reached(PathOf(hist[k]), Len(at))}

SetMin(S) == CHOOSE m \in S : \A x \in S : m <= x

\* the type of a structure node is that of the last / the first record
\* that passed through it
LastTypeWins ==
    ~IllFormed => \A n \in StructNodes :
       n[3].type.descriptor.type = VarTypeOf(hist[SetMax(Through(n[1], n[2]))].type)
FirstTypeWins ==
    ~IllFormed => \A n \in StructNodes :
       n[3].type.descriptor.type = VarTypeOf(hist[SetMin(Through(n[1], n[2]))].type)

\* no step lowers the element count of a structure node
NeverLowered ==
    \A id \in ListIds : \A e \in ListsUnder(TopList(id), <<>>) : \A i \in 1..Len(e[2]) :
       IsStruct(e[2][i]) =>
          LET now == ListAt(TopList(id)', e[1])
          IN \E j \in Named(now, e[2][i].name) :
                now[j].type.descriptor.elements >= e[2][i].type.descriptor.elements

\* C18 as claimed: a structure node has the type of the later record, and
\* its elements is never lowered
C18_LaterTypeWins ==
    [][LastTypeWins' /\ NeverLowered]_vars

\* C18 as amended: a structure node keeps the type of the record that
\* created it, whatever the types of the records that come after, and its
\* elements is never lowered.
C18_FirstTypeStays ==
    [][FirstTypeWins' /\ NeverLowered]_vars

\* an int record made foo with 3 elements, a float record with index 1 came
\* after it: foo is still of the int kind and has 3 elements
C18_Witness ==
    /\ query = "eGL_BUFFER_VARIABLE" /\ ~IllFormed
    /\ \E k1, k2 \in Counted :
          /\ k1 < k2
          /\ hist[k1].name = nFoo2x /\ hist[k1].type = "eGL_INT"
          /\ hist[k2].name = nFoo1y /\ hist[k2].type = "eGL_FLOAT"
          /\ \A k \in Counted : k >= k1
    /\ \E n \in StructNodes :
          /\ n[2] = <<nFoo>>
          /\ n[3].type.descriptor.type = "eVar_Int"
          /\ n[3].type.descriptor.elements = 3

\* the registers of the leaves beneath a node
RECURSIVE LeafRegs(_)
LeafRegs(node) ==
    UNION {IF IsStruct(node.type.members[i])
           THEN LeafRegs(node.type.members[i])
           ELSE {node.type.members[i].reg} \cup LeafRegs(node.type.members[i]) :
           i \in 1..Len(node.type.members)}

\* the least of a set of registers as the pair (vec, comp)
PairMin(S) == CHOOSE m \in S : \A x \in S : PairLeq(m, x)

Creator(id, at) ==
    SetMin({k \in Counted :
               /\ ListFor(hist[k]) = id
               /\ Len(PathOf(hist[k])) >= Len(at)
               /\ Bases(PathOf(hist[k]), Len(at)) = at
               /\ Reached(PathOf(hist[k]), Len(at))})

\* C20: after the sort, of two nodes of one sibling list with equal
\* registers the one created by the earlier record comes first
C20_StableTies ==
    (tpc = "done" /\ ~IllFormed /\ ~SamePathTwice) =>
       \A e \in AllLists : \A i, j \in 1..Len(e[3]) :
          (i < j /\ e[3][i].reg = e[3][j].reg) =>
             Creator(e[1], Append(e[2], e[3][i].name)) < Creator(e[1], Append(e[2], e[3][j].name))

----------------------------------------------------------------------------
(* C21: records that are not variables *)

\* C21: a call for a record whose type is none of the numeric variable
\* types (a sampler, an image) leaves every list of parentBlocks and
\* globalUniforms as it was, whatever the record's name, block index or
\* array size.
C21_NonVariableIgnored ==
    [][(varIdx' = varIdx + 1 /\ ~IsVariableType(Called.type))
          => (parentBlocks' = parentBlocks /\ globalUniforms' = globalUniforms)]_vars

\* a sampler named foo[2].x with block index 1 and array size 4 was visited
\* after a variable had been placed, and nothing named foo was made
C21_Witness ==
    /\ varIdx = 2
    /\ IsVariableType(hist[1].type)
    /\ hist[2] = Res("eGL_SAMPLER_2D", nFoo2x, 0, 1, 4, -1, 0)
    /\ \E id \in ListIds : TopList(id) # <<>>
    /\ \A id \in ListIds : FindByName(TopList(id), nFoo) = 0

----------------------------------------------------------------------------
(* C22: the name table at the end of the first pass *)

\* the first pass has just ended: the names are filled in and the cursor is
\* back on the first instruction
Pass1Ended == dpc = "pass2" /\ it = 5 /\ ~stray

\* C22 as stated: when the first pass ends every id below the bound has a
\* non-empty name, the string of an assign-name instruction for that id if
\* the stream has one and "<id>" otherwise.
C22_LiteralOrPlaceholder ==
    Pass1Ended =>
       \A id \in 0..(Len(resultnames) - 1) :
          /\ resultnames[id + 1] # <<>>
          /\ IF NamersOf(id) = {} THEN resultnames[id + 1] = Placeholder(id)
             ELSE \E j \in NamersOf(id) : resultnames[id + 1] = LiteralOf(j)

\* C22: when the first pass ends every id below the bound has a non-empty
\* name: the string of the last assign-name instruction for that id if
\* that string is not empty, and "<id>" otherwise (no such instruction, or
\* the last one carries an empty string).
C22_LastLiteralOrPlaceholder ==
    Pass1Ended =>
       \A id \in 0..(Len(resultnames) - 1) :
          /\ resultnames[id + 1] # <<>>
          /\ resultnames[id + 1] = AssignedName(id)

\* id 1 was named "a" and then given an empty string, and ends as "<1>";
\* id 0 has no assign-name instruction and ends as "<0>"
C22_Witness ==
    /\ Pass1Ended
    /\ Cardinality(NamersOf(1)) = 2
    /\ \E j \in NamersOf(1) : LiteralOf(j) = <<97>>
    /\ LiteralOf(SetMax(NamersOf(1))) = <<>>
    /\ resultnames = <<<<60, 48, 62>>, <<60, 49, 62>>>>

----------------------------------------------------------------------------
(* C23: the constant blocks of the reflection result (1426-1460) *)

\* the names the driver reports for the uniform blocks (1408-1418)
uboNames == [i \in 1..NumBlocks |-> <<"u", "b", "o", Digits[i]>>]
GlobalsName == <<"$", "G", "l", "o", "b", "a", "l", "s">>

ConstantBlock(name, backed, bind, variables) ==
    [name |-> name, bufferBacked |-> backed, bindPoint |-> bind, variables |-> variables]

\* faulty variant: a block's bindPoint is its uniform block index
BlocksFrom_ByIndex(cbuffers, ubos, i) ==
    [k \in 1..Len(ubos) |-> ConstantBlock(uboNames[k], TRUE, k - 1, ubos[k])]

\* the loop at 1432-1446 from index i on
RECURSIVE BlocksFrom(_, _, _)
BlocksFrom(cbuffers, ubos, i) ==
    IF i >= Len(ubos) THEN cbuffers
    ELSE IF ubos[i + 1] # <<>>
         THEN BlocksFrom(Append(cbuffers,
                                ConstantBlock(uboNames[i + 1], TRUE, Len(cbuffers), ubos[i + 1])),
                         ubos, i + 1)
         ELSE BlocksFrom(cbuffers, ubos, i + 1)

\* 1426-1460: the uniform blocks that have members, then $Globals if the
\* uniforms outside every block left any
ConstantBlocks(ubos, globals) ==
    LET backed == BlocksFrom(<<>>, ubos, 0)
    IN IF globals # <<>>
       THEN Append(backed, ConstantBlock(GlobalsName, FALSE, Len(backed), globals))
       ELSE backed

\* refl.ConstantBlocks (1753) once the uniform loop has finished and the
\* lists are sorted
cbuffers == ConstantBlocks(parentBlocks, globalUniforms)

\* the groups that received a variable, by index
GroupsWithMembers == {i \in 0..(NumBlocks - 1) : TopList(<<"group", i>>) # <<>>}

\* C23: the constant blocks are the buffer-backed groups that have members
\* in ascending group index, each with its group's name and variables, then
\* the ungrouped block $Globals (not buffer-backed) if and only if it has
\* members; the bindPoint of every block is its position in the list.
C23_DiscoveryOrder ==
    (tpc = "done" /\ query = "eGL_UNIFORM") =>
       LET n == Cardinality(GroupsWithMembers)
           last == IF globalUniforms # <<>> THEN 1 ELSE 0
       IN /\ Len(cbuffers) = n + last
          /\ \A k \in 1..Len(cbuffers) : cbuffers[k].bindPoint = k - 1
          /\ \A k \in 1..n :
                /\ cbuffers[k].bufferBacked
                /\ \E i \in GroupsWithMembers :
                      /\ Cardinality({j \in GroupsWithMembers : j < i}) = k - 1
                      /\ cbuffers[k].name = uboNames[i + 1]
                      /\ cbuffers[k].variables = parentBlocks[i + 1]
          /\ last = 1 =>
                /\ ~cbuffers[n + 1].bufferBacked
                /\ cbuffers[n + 1].name = GlobalsName
                /\ cbuffers[n + 1].variables = globalUniforms

\* group 0 got nothing, group 1 and the ungrouped list got a variable: the
\* result lists group 1 at bindPoint 0 and $Globals at bindPoint 1
C23_Witness ==
    /\ tpc = "done" /\ query = "eGL_UNIFORM"
    /\ parentBlocks[1] = <<>> /\ parentBlocks[2] # <<>> /\ globalUniforms # <<>>
    /\ Len(cbuffers) = 2
    /\ cbuffers[1].name = uboNames[2] /\ cbuffers[1].bindPoint = 0
    /\ cbuffers[2].name = GlobalsName /\ cbuffers[2].bindPoint = 1

----------------------------------------------------------------------------
(* The signature lists of MakeShaderReflection (1463-1748) *)

MaxSigs == 3        \* program inputs / outputs the driver lists

gl_Position  == <<"g", "l", "_", "P", "o", "s", "i", "t", "i", "o", "n">>
gl_PointSize == <<"g", "l", "_", "P", "o", "i", "n", "t", "S", "i", "z", "e">>
gl_ClipDistance ==
    <<"g", "l", "_", "C", "l", "i", "p", "D", "i", "s", "t", "a", "n", "c", "e">>

\* IS_BUILTIN (1651): the name starts with the builtin's name
IS_BUILTIN(nm, builtin) ==
    Len(nm) >= Len(builtin) /\ SubSeq(nm, 1, Len(builtin)) = builtin

\* the categories in the order of their enumerators
SystemAttributes == <<"eAttr_None", "eAttr_Position", "eAttr_PointSize",
                      "eAttr_ClipDistance", "eAttr_ColourOutput">>
AttrRank(sv) == CHOOSE k \in 1..Len(SystemAttributes) : SystemAttributes[k] = sv

\* 1649-1714 for the builtins of the inputs below
SystemValueOf(nm, stage, iface) ==
    LET builtin == IF IS_BUILTIN(nm, gl_ClipDistance) THEN "eAttr_ClipDistance"
                   ELSE IF IS_BUILTIN(nm, gl_PointSize) THEN "eAttr_PointSize"
                   ELSE IF IS_BUILTIN(nm, gl_Position) THEN "eAttr_Position"
                   ELSE "eAttr_None"
    IN IF stage = "eGL_FRAGMENT_SHADER" /\ iface = "eGL_PROGRAM_OUTPUT"
          /\ builtin = "eAttr_None"
       THEN "eAttr_ColourOutput"
       ELSE builtin

\* rows of the switch at 1499-1643
SigRowsOf(t) == IF t = "eGL_FLOAT_MAT2" THEN 2 ELSE 1

\* 1655-1658: builtins that were only added to make the program separable
\* are left out
SkippedSig(nm) ==
    \/ IS_BUILTIN(nm, gl_PointSize) /\ ~pointSizeUsed
    \/ IS_BUILTIN(nm, gl_ClipDistance) /\ ~clipDistanceUsed

\* 1716-1719
SigRegIndex(sv, location, i) ==
    IF sv = "eAttr_None" THEN (IF location >= 0 THEN location ELSE i)
    ELSE (IF location >= 0 THEN location ELSE 0)

\* 1721-1734: the entries one program input adds behind the n already
\* pushed; pushed is the number of entries pushed before this one
SigEntries(inp, i, n) ==
    LET sv == SystemValueOf(inp.name, shadType, sigEnum)
        reg == SigRegIndex(sv, inp.location, i)
        rows == SigRowsOf(inp.type)
    IN IF SkippedSig(inp.name) THEN <<>>
       ELSE IF rows = 1
            THEN <<[varName |-> inp.name, systemValue |-> sv, regIndex |-> reg, pushed |-> n]>>
            ELSE [r \in 1..rows |->
                     [varName |-> inp.name \o <<":", "r", "o", "w", Digits[r]>>,
                      systemValue |-> sv, regIndex |-> reg + (r - 1), pushed |-> n + (r - 1)]]

\* sig_param_sort (1738-1742)
sig_param_sort(a, b) ==
    IF a.systemValue = b.systemValue THEN a.regIndex < b.regIndex
    ELSE AttrRank(a.systemValue) < AttrRank(b.systemValue)

SigInsertSorted(s, x) ==
    LET k == Cardinality({i \in 1..Len(s) : ~sig_param_sort(x, s[i])})
    IN SubSeq(s, 1, k) \o <<x>> \o SubSeq(s, k + 1, Len(s))

RECURSIVE SigInsertionSort(_, _)
SigInsertionSort(done, rest) ==
    IF rest = <<>> THEN done
    ELSE SigInsertionSort(SigInsertSorted(done, Head(rest)), Tail(rest))

\* std::sort(sigs.begin(), sigs.end(), sig_param_sort()) (1744): ordered by
\* the comparison; entries that compare equal come out as the library of
\* the build leaves them ("keep": as they were, "swap": reversed)
SigSort(s, ties) ==
    IF ties = "keep" THEN SigInsertionSort(<<>>, s) ELSE SigInsertionSort(<<>>, Reverse(s))

SigInput(t, n, loc) == [type |-> t, name |-> n, location |-> loc]

\* what the driver can list: plain variables, a 2x2 matrix, builtins
SigPool ==
    { SigInput("eGL_FLOAT_VEC4", n, loc) : n \in {<<"a">>, gl_Position, gl_PointSize},
                                            loc \in {-1, 1} }
    \cup { SigInput("eGL_FLOAT_MAT2", <<"m">>, loc) : loc \in {-1, 0} }

NoSources ==
    /\ sources = <<>>
    /\ srcIdx = 0
    /\ offs = 0
    /\ upc = "off"

InitSig ==
    /\ NoReflection /\ NoDisassembly /\ other = Alone
    /\ NoResources /\ NoPatch /\ NoSources
    /\ pointSizeUsed \in BOOLEAN
    /\ clipDistanceUsed = FALSE
    /\ shadType \in {"eGL_VERTEX_SHADER", "eGL_FRAGMENT_SHADER"}
    /\ sigEnum \in {"eGL_PROGRAM_INPUT", "eGL_PROGRAM_OUTPUT"}
    /\ sigInputs = <<>>
    /\ sigs = <<>>
    /\ spc = "collect"

\* one iteration of the loop at 1475-1737: the driver's answer for input i
\* is drawn here
CollectSig(inp) ==
    /\ spc = "collect"
    /\ Len(sigInputs) < MaxSigs
    /\ sigInputs' = Append(sigInputs, inp)
    /\ sigs' = sigs \o SigEntries(inp, Len(sigInputs), Len(sigs))
    /\ UNCHANGED <<spc, shadType, sigEnum, treeVars, disVars, other, resVars, useVars, sepVars>>

\* 1744-1746, when the driver listed anything (1471)
SortSigs(ties) ==
    /\ spc = "collect"
    /\ Len(sigInputs) > 0
    /\ sigs' = SigSort(sigs, ties)
    /\ spc' = "sorted"
    /\ UNCHANGED <<sigInputs, shadType, sigEnum, treeVars, disVars, other, resVars, useVars, sepVars>>

NextInput == \E inp \in SigPool : CollectSig(inp)
SortSignature == \E ties \in {"keep", "swap"} : SortSigs(ties)

NextSig == NextInput \/ SortSignature

SpecSig == InitSig /\ [][NextSig]_vars

\* C24: the sorted signature list is ordered by system-value category
\* first and register index ascending second, and two entries equal on both
\* keys stand in the order in which they were pushed.
C24_SortedStable ==
    spc = "sorted" =>
       \A i, j \in 1..Len(sigs) :
          i < j =>
             /\ ~sig_param_sort(sigs[j], sigs[i])
             /\ (sigs[i].systemValue = sigs[j].systemValue
                   /\ sigs[i].regIndex = sigs[j].regIndex)
                => sigs[i].pushed < sigs[j].pushed

----------------------------------------------------------------------------
(* C25: the order of the records *)

\* every structure node of the lists, as <<list, path, elements, names of
\* its members>>
StructSummary(lists) ==
    LET tops == {<<Ungrouped, lists.dflt>>}
                \cup {<<(<<"group", i - 1>>), lists.blocks[i]>> : i \in 1..Len(lists.blocks)}
        under == UNION {{<<t[1], e[1], e[2]>> : e \in ListsUnder(t[2], <<>>)} : t \in tops}
    IN UNION {{<<e[1], Append(e[2], e[3][i].name),
                 e[3][i].type.descriptor.elements,
                 {e[3][i].type.members[j].name : j \in 1..Len(e[3][i].type.members)}>> :
                  i \in {i \in 1..Len(e[3]) : IsStruct(e[3][i])}} : e \in under}

\* the orders in which the n records visited so far can be processed
Orders(n) == {f \in [1..n -> 1..n] : \A a, b \in 1..n : f[a] = f[b] => a = b}

\* C25: for well-formed records, after every call the element count of
\* every structure node and the set of member names beneath it are what
\* they would be had the records visited so far been processed in any
\* other order.
C25_OrderIndependent ==
    [][(varIdx' = varIdx + 1 /\ ~IllFormed') =>
          \A f \in Orders(varIdx') :
             StructSummary(ReplayFrom(query,
                                      [blocks |-> FreshBlocks(<<>>), dflt |-> <<>>],
                                      [k \in 1..varIdx' |-> hist'[f[k]]]))
               = StructSummary([blocks |-> parentBlocks', dflt |-> globalUniforms'])]_vars

\* foo[2].x, foo[0].x and foo[1].y went through foo with the highest index
\* first: foo has 3 elements and the one member x
C25_Witness ==
    /\ query = "eGL_UNIFORM"
    /\ varIdx = 3
    /\ hist[1].name = nFoo2x /\ hist[2].name = nFoo0x /\ hist[3].name = nFoo1y
    /\ \A k \in 1..3 : IsVariableType(hist[k].type) /\ hist[k].blockIndex = -1
    /\ StructSummary([blocks |-> parentBlocks, dflt |-> globalUniforms])
          = {<<Ungrouped, <<nFoo>>, 3, {nX}>>}

----------------------------------------------------------------------------
(* C26: the reads of the test for a trailing [0] *)

\* C26: in a call that gets as far as the test for a trailing [0], the
\* first position the test reads lies inside the name, and a name shorter
\* than 3 characters is kept whole with elements 0 whatever the reads
\* return.
C26_ReadsInside ==
    [][(varIdx' = varIdx + 1 /\ IsVariableType(Called.type)) =>
          LET values == Values(query, Called)
              c == Val(values, 1) - 1
          IN /\ TrailIndices(c)[1] >= 0
             /\ c < 3 => \A before \in Stray(Called) :
                             /\ MakeVar(values, Called.name, before).name = Called.name
                             /\ MakeVar(values, Called.name, before).type.descriptor.elements = 0]_vars

----------------------------------------------------------------------------
(* C27: the storage order of a record *)

Unbound == [vec |-> UINT_MAX, comp |-> UINT_MAX]

\* the order a record is meant to get: from its byte offset, else from its
\* location, else none
StorageOrder(res) ==
    IF res.offset >= 0
    THEN [vec |-> res.offset \div 16, comp |-> (res.offset \div 4) % 4]
    ELSE IF res.offset = -1 /\ res.location >= 0
         THEN [vec |-> res.location, comp |-> 0]
         ELSE Unbound

\* C27: the leaf of a record has the storage order of its offset (o div 16,
\* (o div 4) mod 4), else of its location (l, 0), else the unbound order
\* (~0U, ~0U); after the sort no unbound node stands before a bound sibling,
\* and a structure node that a bound record went through is not unbound.
C27_StorageOrder ==
    /\ ~IllFormed =>
          \A k \in Counted : GivesLeaf(hist[k]) =>
             LET path == PathOf(hist[k])
                 sib == ListAt(TopList(ListFor(hist[k])), Bases(path, Len(path) - 1))
             IN \E i \in Named(sib, path[Len(path)].base) :
                   sib[i].reg = StorageOrder(hist[k])
    /\ tpc = "done" =>
          \A e \in AllLists : \A i, j \in 1..Len(e[3]) :
             i < j => ~(e[3][i].reg.vec = UINT_MAX /\ e[3][j].reg.vec # UINT_MAX)
    /\ ~IllFormed =>
          \A n \in StructNodes :
             (\E k \in Through(n[1], n[2]) : StorageOrder(hist[k]) # Unbound)
                => n[3].reg.vec # UINT_MAX

\* y and foo[1].y, both without location or offset, came before foo[0].x
\* at location 2: the sorted list has foo at (2, 0) before the unbound y
C27_Witness ==
    /\ tpc = "done" /\ query = "eGL_UNIFORM"
    /\ hist = <<Loose("eGL_FLOAT", nY, -1), Loose("eGL_FLOAT", nFoo1y, -1),
                Loose("eGL_FLOAT", nFoo0x, 2)>>
    /\ Len(globalUniforms) = 2
    /\ globalUniforms[1].name = nFoo /\ globalUniforms[1].reg = [vec |-> 2, comp |-> 0]
    /\ globalUniforms[2].name = nY /\ globalUniforms[2].reg = Unbound

----------------------------------------------------------------------------
(* The resource list of MakeShaderReflection (763-1377, 1752) *)

MaxUniforms == 3    \* uniforms the driver lists
MaxSSBOs == 2       \* shader storage blocks the driver lists

\* the classification at 790-1309: what kind of resource a uniform type
\* is, "none" for a type that is no sampler, image or atomic counter
ResKindOf(t) ==
    CASE t = "eGL_SAMPLER_2D" ->
            [is |-> "resource", resType |-> "eResType_Texture2D", typeName |-> "sampler2D",
             IsSRV |-> TRUE, IsTexture |-> TRUE, IsReadWrite |-> FALSE]
      [] t = "eGL_IMAGE_2D" ->
            [is |-> "resource", resType |-> "eResType_Texture2D", typeName |-> "image2D",
             IsSRV |-> FALSE, IsTexture |-> TRUE, IsReadWrite |-> TRUE]
      [] t = "eGL_UNSIGNED_INT_ATOMIC_COUNTER" ->
            [is |-> "resource", resType |-> "eResType_Buffer", typeName |-> "atomic_uint",
             IsSRV |-> FALSE, IsTexture |-> FALSE, IsReadWrite |-> TRUE]
      [] OTHER -> [is |-> "none"]

ShaderResource(name, kind, bind) ==
    [name |-> name, resType |-> kind.resType, typeName |-> kind.typeName,
     IsSRV |-> kind.IsSRV, IsTexture |-> kind.IsTexture, IsReadWrite |-> kind.IsReadWrite,
     bindPoint |-> bind]

\* StringFormat::Fmt("%s[%d]", name, i) for i below 10
ArrName(name, i) == name \o <<"[", Digits[i + 1], "]">>

\* name.substr(0, name.length()-3) (1324)
TrimThree(name) == IF Len(name) >= 3 THEN SubSeq(name, 1, Len(name) - 3) ELSE name

\* faulty variant: the entries of an array keep the bindPoint of the first
ArrayEntries_SameBind(un, kind, n) ==
    [i \in 1..(un.arraySize - 1) |-> ShaderResource(ArrName(TrimThree(un.name), i), kind, n - 1)]

\* 1322-1334: the entries for elements 1.. of a sampler array, pushed
\* behind the n resources the list holds
ArrayEntries(un, kind, n) ==
    [i \in 1..(un.arraySize - 1) |-> ShaderResource(ArrName(TrimThree(un.name), i), kind, n + i - 1)]

\* one iteration of the loop at 774-1335: what a uniform adds to a list of
\* n resources
ResourcesOf(un, n) ==
    LET kind == ResKindOf(un.type)
    IN IF kind.is = "none" THEN <<>>
       ELSE <<ShaderResource(un.name, kind, n)>>
            \o (IF un.arraySize > 1 THEN ArrayEntries(un, kind, n + 1) ELSE <<>>)

\* the kind of a storage block (1353-1364)
BufferKind ==
    [is |-> "resource", resType |-> "eResType_Buffer", typeName |-> "buffer",
     IsSRV |-> FALSE, IsTexture |-> FALSE, IsReadWrite |-> TRUE]

UniformInput(t, n, arr) == [type |-> t, name |-> n, arraySize |-> arr]

\* what the driver can list: a sampler, a sampler array of 3, an image, an
\* atomic counter and a plain float
UniformPool ==
    { UniformInput("eGL_SAMPLER_2D", <<"t">>, 1),
      UniformInput("eGL_SAMPLER_2D", <<"a", "[", "0", "]">>, 3),
      UniformInput("eGL_IMAGE_2D", <<"i">>, 1),
      UniformInput("eGL_UNSIGNED_INT_ATOMIC_COUNTER", <<"c">>, 1),
      UniformInput("eGL_FLOAT", <<"x">>, 1) }

InitRes ==
    /\ NoReflection /\ NoDisassembly /\ other = Alone
    /\ NoSignature /\ NoUses /\ NoPatch
    /\ uniforms = <<>>
    /\ numSSBOs \in 0..MaxSSBOs
    /\ rpc = "uniforms"
    /\ resU = 0
    /\ resources = <<>>

\* one iteration of the loop at 774-1335; the driver's answer for uniform
\* u is drawn here
UniformResource(un) ==
    /\ rpc = "uniforms"
    /\ Len(uniforms) < MaxUniforms
    /\ uniforms' = Append(uniforms, un)
    /\ resources' = resources \o ResourcesOf(un, Len(resources))
    /\ resU' = resU + 1
    /\ UNCHANGED <<numSSBOs, rpc, treeVars, disVars, other, sigVars, useVars, sepVars>>

\* the uniform loop ends (u = numUniforms)
UniformsListed ==
    /\ rpc = "uniforms"
    /\ rpc' = "ssbos"
    /\ resU' = 0
    /\ UNCHANGED <<uniforms, numSSBOs, resources, treeVars, disVars, other, sigVars, useVars, sepVars>>

\* one iteration of the loop at 1344-1376
StorageBlock ==
    /\ rpc = "ssbos"
    /\ resU < numSSBOs
    /\ resources' = Append(resources,
                           ShaderResource(<<"b", Digits[resU + 1]>>, BufferKind, Len(resources)))
    /\ resU' = resU + 1
    /\ UNCHANGED <<uniforms, numSSBOs, rpc, treeVars, disVars, other, sigVars, useVars, sepVars>>

\* the list is stored in the result (1752)
ResourcesStored ==
    /\ rpc = "ssbos"
    /\ resU = numSSBOs
    /\ rpc' = "done"
    /\ UNCHANGED <<uniforms, numSSBOs, resU, resources, treeVars, disVars, other, sigVars, useVars, sepVars>>

NextUniform == \E un \in UniformPool : UniformResource(un)

NextRes == NextUniform \/ UniformsListed \/ StorageBlock \/ ResourcesStored

SpecRes == InitRes /\ [][NextRes]_vars

\* C28: at every point of the construction, and so in the stored list, the
\* bindPoint of every resource is its zero-based position in the list.
C28_BindIsPosition ==
    \A k \in 1..Len(resources) : resources[k].bindPoint = k - 1

\* a float, a sampler array of 3 and an image were listed and one storage
\* block: the array gave a[0], a[1], a[2] at 0, 1, 2, the image is at 3 and
\* the block at 4
C28_Witness ==
    /\ rpc = "done"
    /\ uniforms = <<UniformInput("eGL_FLOAT", <<"x">>, 1),
                    UniformInput("eGL_SAMPLER_2D", <<"a", "[", "0", "]">>, 3),
                    UniformInput("eGL_IMAGE_2D", <<"i">>, 1)>>
    /\ [k \in 1..Len(resources) |-> resources[k].name]
          = << <<"a", "[", "0", "]">>, <<"a", "[", "1", "]">>, <<"a", "[", "2", "]">>,
               <<"i">>, <<"b", "0">> >>
    /\ [k \in 1..Len(resources) |-> resources[k].bindPoint] = <<0, 1, 2, 3, 4>>

----------------------------------------------------------------------------
(* CheckVertexOutputUses (108-169) *)

MaxPieces == 3      \* pieces a source string is put together from

npos == -1

\* faulty variant: the search starts at the front of the string every time
Find_FromStart(s, needle, from) ==
    LET hits == {q \in 0..(Len(s) - Len(needle)) : SubSeq(s, q + 1, q + Len(needle)) = needle}
    IN IF hits = {} THEN npos ELSE CHOOSE q \in hits : \A h \in hits : q <= h

\* s.find(needle, from): the first position at or after from where needle
\* stands in s, npos if there is none
Find(s, needle, from) ==
    LET hits == {q \in from..(Len(s) - Len(needle)) : SubSeq(s, q + 1, q + Len(needle)) = needle}
    IN IF hits = {} THEN npos ELSE CHOOSE q \in hits : \A h \in hits : q <= h

\* the text the scans look for
NeedleOf(which) == IF which = "point" THEN gl_PointSize ELSE gl_ClipDistance

\* source text: the two names, the two characters the scan stops at, a
\* character of no interest and the beginning of a name
SourcePieces == {gl_PointSize, gl_ClipDistance, <<"=">>, <<";">>, <<"x">>, <<"g", "l", "_">>}

SourceStrings(n) == Bodies(SourcePieces, n)

\* the lists of sources: none, one string, or two short ones
SourceLists ==
    {<<>>} \cup {<<t>> : t \in SourceStrings(MaxPieces)}
    \cup {<<t1, t2>> : t1 \in SourceStrings(1), t2 \in SourceStrings(1)}

InitUses ==
    /\ NoReflection /\ NoDisassembly /\ other = Alone
    /\ NoResources /\ NoSignature /\ NoPatch
    /\ sources \in SourceLists
    /\ srcIdx = 0
    /\ offs = 0
    /\ pointSizeUsed \in BOOLEAN
    /\ clipDistanceUsed \in BOOLEAN
    /\ upc = "entry"

\* 110-113: both flags are cleared and the loop over the sources begins
ClearFlags ==
    /\ upc = "entry"
    /\ pointSizeUsed' = FALSE
    /\ clipDistanceUsed' = FALSE
    /\ srcIdx' = 0
    /\ offs' = 0
    /\ upc' = IF Len(sources) = 0 THEN "done" ELSE "point"
    /\ UNCHANGED <<sources, treeVars, disVars, other, resVars, sigVars, sepVars>>

\* 121-124 / 147-150: the next occurrence of the name from offs on; without
\* one the loop is left: for the next name, the next source or the return
FindName(which) ==
    /\ upc = which
    /\ LET found == Find(sources[srcIdx + 1], NeedleOf(which), offs)
       IN IF found # npos
          THEN /\ offs' = found
               /\ upc' = IF which = "point" THEN "pointscan" ELSE "clipscan"
               /\ srcIdx' = srcIdx
          ELSE /\ offs' = 0
               /\ IF which = "point"
                  THEN upc' = "clip" /\ srcIdx' = srcIdx
                  ELSE /\ srcIdx' = srcIdx + 1
                       /\ upc' = IF srcIdx + 1 < Len(sources) THEN "point" ELSE "done"
    /\ UNCHANGED <<sources, pointSizeUsed, clipDistanceUsed,
                   treeVars, disVars, other, resVars, sigVars, sepVars>>

\* 128-140 / 154-166: one iteration of the scan for '=' or ';'
ScanChar(which) ==
    /\ upc = (IF which = "point" THEN "pointscan" ELSE "clipscan")
    /\ LET t == sources[srcIdx + 1]
       IN IF offs >= Len(t)
          THEN /\ upc' = which
               /\ UNCHANGED <<offs, pointSizeUsed, clipDistanceUsed>>
          ELSE IF t[offs + 1] = "="
          THEN /\ pointSizeUsed' = (IF which = "point" THEN TRUE ELSE pointSizeUsed)
               /\ clipDistanceUsed' = (IF which = "clip" THEN TRUE ELSE clipDistanceUsed)
               /\ upc' = which
               /\ offs' = offs
          ELSE IF t[offs + 1] = ";"
          THEN /\ upc' = which
               /\ UNCHANGED <<offs, pointSizeUsed, clipDistanceUsed>>
          ELSE /\ offs' = offs + 1
               /\ UNCHANGED <<upc, pointSizeUsed, clipDistanceUsed>>
    /\ UNCHANGED <<sources, srcIdx, treeVars, disVars, other, resVars, sigVars, sepVars>>

FindPointSize == FindName("point")
ScanPointSize == ScanChar("point")
FindClipDistance == FindName("clip")
ScanClipDistance == ScanChar("clip")

NextUses ==
    ClearFlags \/ FindPointSize \/ ScanPointSize \/ FindClipDistance \/ ScanClipDistance

\* the function runs on as long as it has a statement to execute
SpecUses == InitUses /\ [][NextUses]_vars /\ WF_vars(NextUses)

\* in some source some occurrence of the name is followed by a '=' with no
\* ';' between them
Assigned(needle) ==
    \E k \in 1..Len(sources) :
       LET t == sources[k]
       IN \E q \in 0..(Len(t) - Len(needle)) :
             /\ SubSeq(t, q + 1, q + Len(needle)) = needle
             /\ \E e \in (q + 1)..Len(t) :
                   /\ t[e] = "="
                   /\ \A r \in (q + 1)..(e - 1) : t[r] # ";"

\* C29: CheckVertexOutputUses returns for every list of sources, and on
\* return pointSizeUsed is TRUE exactly when in some source an occurrence
\* of gl_PointSize is followed by a '=' with no ';' between, likewise
\* clipDistanceUsed for gl_ClipDistance, whatever the flags were at entry.
C29_TerminatesExact ==
    /\ <>(upc = "done")
    /\ [](upc = "done" => /\ pointSizeUsed = Assigned(gl_PointSize)
                          /\ clipDistanceUsed = Assigned(gl_ClipDistance))

\* the call has returned for the source "gl_PointSizex=": the first flag
\* is TRUE and the second FALSE
C29_Witness ==
    /\ upc = "done"
    /\ sources = << gl_PointSize \o <<"x", "=">> >>
    /\ pointSizeUsed /\ ~clipDistanceUsed

----------------------------------------------------------------------------
(* MakeSeparableShaderProgram: the patch of a source string (292-374) *)

MaxParts == 3       \* parts of the text behind the version directive

\* text as 0-based positions, as the code indexes it
At(t, i) == t[i + 1]
StartsAt(t, i, w) == i + Len(w) <= Len(t) /\ SubSeq(t, i + 1, i + Len(w)) = w

Blank(c) == c = " " \/ c = "\t"
EndOfLine(c) == c = "\r" \/ c = "\n"

versionDirective == <<"#", "v", "e", "r", "s", "i", "o", "n">>
extDirective == <<"#", "e", "x", "t", "e", "n", "s", "i", "o", "n">>
core == <<"c", "o", "r", "e">>
compatibility == <<"c", "o", "m", "p", "a", "t", "i", "b", "i", "l", "i", "t", "y">>
es == <<"e", "s">>

\* the conditions of the loops that step over characters
InClass(c, class) ==
    CASE class = "blank" -> Blank(c)
      [] class = "digit" -> IsDigit(c)
      [] class = "space" -> Blank(c) \/ EndOfLine(c)
      [] class = "line"  -> ~EndOfLine(c)

\* the loops of the form while(it < len && P(src[it])) ++it
RECURSIVE SkipWhile(_, _, _)
SkipWhile(t, i, class) ==
    IF i < Len(t) /\ InClass(At(t, i), class) THEN SkipWhile(t, i + 1, class) ELSE i

\* 316-318: one profile word at the cursor is stepped over
SkipWord(t, i, w) == IF StartsAt(t, i, w) THEN i + Len(w) ELSE i

\* 356-357: the cursor moves on until it stands on the '*' of a "*/", or on
\* the last character
RECURSIVE SkipToClose(_, _)
SkipToClose(t, i) ==
    IF i + 1 < Len(t) /\ (At(t, i) # "*" \/ At(t, i + 1) # "/")
    THEN SkipToClose(t, i + 1)
    ELSE i

\* the loop at 321-365
RECURSIVE SkipComments(_, _)
SkipComments(t, i) ==
    IF i >= Len(t) THEN i
    ELSE LET j == SkipWhile(t, i, "space")
         IN IF j + 1 < Len(t) /\ At(t, j) = "/" /\ At(t, j + 1) = "/"
            THEN SkipComments(t, SkipWhile(t, j, "line"))
            ELSE IF StartsAt(t, j, extDirective) /\ j + Len(extDirective) < Len(t)
                    /\ Blank(At(t, j + Len(extDirective)))
            THEN SkipComments(t, SkipWhile(t, j, "line"))
            ELSE IF j + 1 < Len(t) /\ At(t, j) = "/" /\ At(t, j + 1) = "*"
            THEN SkipComments(t, SkipToClose(t, j))
            ELSE j

\* 302-365: the cursor from the start of #version to the insertion point
InsertionPoint(t, found) ==
    LET a == found + Len(versionDirective)
        b == SkipWhile(t, a, "blank")
        c == SkipWhile(t, b, "digit")
        d == SkipWhile(t, c, "blank")
        e == SkipWord(t, SkipWord(t, SkipWord(t, d, core), compatibility), es)
    IN SkipComments(t, e)

\* substituted.insert(it, block)
Insert(t, i, b) == SubSeq(t, 1, i) \o b \o SubSeq(t, i + 1, Len(t))

\* the out block of a vertex shader (218), shortened to its first words
outBlock == <<"o", "u", "t", " ", "g", "l", "_", "P", "e", "r", "V", "e", "r", "t", "e", "x",
              ";", "\n">>

\* sources: a first line, then comments, extension lines and code
FirstLines ==
    { <<>>,
      versionDirective \o <<" ", "3", "3", "0">>,
      versionDirective \o <<" ", "3", "3", "0", " ">> \o core,
      versionDirective \o <<" ", "3", "0", "0", " ">> \o es }

TextParts ==
    { <<"\n">>, <<" ">>, <<"/", "/", "c">>, <<"/", "*", "c", "*", "/">>, <<"/", "*">>,
      extDirective \o <<" ", "e">>, <<"x">> }

PatchSources == {f \o t : f \in FirstLines, t \in Bodies(TextParts, MaxParts)}

InitSep ==
    /\ NoReflection /\ NoDisassembly /\ other = Alone
    /\ NoResources /\ NoSignature /\ NoUses
    /\ src \in PatchSources
    /\ block = outBlock
    /\ insertAt = 0
    /\ substituted = <<>>
    /\ ppc = "scan"

\* one iteration of the loop at 292-374 for a source that holds #version:
\* the block is inserted and the loop is left
PatchSource ==
    /\ ppc = "scan"
    /\ Find(src, versionDirective, 0) # npos
    /\ insertAt' = InsertionPoint(src, Find(src, versionDirective, 0))
    /\ substituted' = Insert(src, insertAt', block)
    /\ ppc' = "patched"
    /\ UNCHANGED <<src, block, treeVars, disVars, other, resVars, sigVars, useVars>>

\* 298-299: a source without #version is passed over
SkipSource ==
    /\ ppc = "scan"
    /\ Find(src, versionDirective, 0) = npos
    /\ ppc' = "skipped"
    /\ UNCHANGED <<src, block, insertAt, substituted, treeVars, disVars, other,
                   resVars, sigVars, useVars>>

NextSep == PatchSource \/ SkipSource

SpecSep == InitSep /\ [][NextSep]_vars

\* the comments of a text from position i on, as <<first position,
\* position behind the last>>
RECURSIVE CommentsFrom(_, _)
CommentsFrom(t, i) ==
    IF i + 1 >= Len(t) THEN {}
    ELSE IF At(t, i) = "/" /\ At(t, i + 1) = "/"
    THEN LET e == SkipWhile(t, i, "line")
         IN {<<i, e>>} \cup CommentsFrom(t, e)
    ELSE IF At(t, i) = "/" /\ At(t, i + 1) = "*"
    THEN LET e == Find(t, <<"*", "/">>, i + 2)
         IN IF e = npos THEN {<<i, Len(t)>>}
            ELSE {<<i, e + 2>>} \cup CommentsFrom(t, e + 2)
    ELSE CommentsFrom(t, i + 1)

\* a C-style comment of the text has no closing "*/"
Unclosed(t) ==
    \E cm \in CommentsFrom(t, 0) :
       At(t, cm[1] + 1) = "*" /\ (cm[2] - cm[1] < 4 \/ ~StartsAt(t, cm[2] - 2, <<"*", "/">>))

\* C30: in a source whose comments are closed, the block is inserted behind
\* the #version directive and never inside a comment: a comment that begins
\* before the insertion point has ended at or before it.
C30_NotInsideComment ==
    (ppc = "patched" /\ ~Unclosed(src)) =>
       /\ insertAt >= Find(src, versionDirective, 0) + Len(versionDirective)
       /\ \A cm \in CommentsFrom(src, 0) : ~(cm[1] < insertAt /\ insertAt < cm[2])

====
